---- MODULE Spec2Model ----
(***************************************************************************)
(* pulsedb: the sharded, versioned in-memory store (internal/store) with   *)
(* its TTL wheel and background expirer, and the TTL command of the        *)
(* dispatcher (internal/server/dispatch.go).                               *)
(*                                                                         *)
(* Spec     the store under concurrent clients and the expirer, one step   *)
(*          per critical section of the code.                              *)
(* SpecLong one client issuing Set calls on one key, long enough to pass   *)
(*          MaxVersions.                                                   *)
(***************************************************************************)
EXTENDS Integers, Sequences, FiniteSets, TLC

VARIABLES
    clock,      \* time.Now().UnixMilli()
    data,       \* shards[hash(k)].data[k].Versions, for the keys present
    entries,    \* ttlWheel.entries
    shardMu,    \* shards[i].mu: the task holding the write lock, or NoOwner
    pc,         \* position of each client task in its current call
    op,         \* arguments and locals of each client's current call
    ret,        \* the value returned by the call that completed last
    epc,        \* position of the expirer goroutine in expireKeys
    enow,       \* expireKeys: now
    expiredKeys,\* expireKeys: keys returned by GetExpired, not yet visited
    lastEff,    \* history: per key, the client mutation that took effect last
    writes,     \* history: the Sets of the sequential run (SpecLong), in order
    life,       \* SpecLife: contexts, WaitGroup, expirer goroutine and Close
    task,       \* SpecLocks: each task's operation, position and held locks
    conn        \* SpecConn: the connection, its input and its responses

vars == <<clock, data, entries, shardMu, pc, op, ret, epc, enow, expiredKeys,
          lastEff, writes, life, task, conn>>

----------------------------------------------------------------------------
(* Program constants *)

ShardCount == 64
MaxVersions == 10

(* Bounds of the model *)

MaxClock == 3       \* the clock runs from 1 to MaxClock
MaxChain == 2       \* Spec: a client starts no Set on a chain this long
MaxSets == 11       \* SpecLong: number of Set calls
LockMaxChain == 1   \* SpecLocks: a task starts no Set on a chain this long
MaxFrames == 2      \* SpecConn: frames the client sends; SpecWire: values written
MaxCmds == 3        \* SpecCmd: number of commands dispatched
MaxWheelOps == 4    \* SpecWheel: number of TTL index calls

(* Inputs *)

Keys == {"a"}
Clients == {"c1", "c2"}
Values == {1, 2}
SetTTLs == {0, 2}
ExpireTTLs == {2}
Gaps == {0, 1, 2}   \* SpecLong: milliseconds between two Sets

LockClients == {"t1"}                       \* SpecLocks: the client tasks
StatsTasks == {"s1"}                        \* SpecStats: the tasks calling Stats
LockTasks == LockClients \cup StatsTasks \cup {"expirer"}   \* all tasks

NoOwner == "none"

----------------------------------------------------------------------------
(* Maps *)

EmptyMap == [x \in {} |-> x]

MapPut(m, k, v) == [x \in (DOMAIN m) \cup {k} |-> IF x = k THEN v ELSE m[x]]

MapDelete(m, k) == [x \in (DOMAIN m) \ {k} |-> m[x]]

\* sha256.Sum256([]byte(key))[:8], tabulated for the keys of the model and
\* of TestStoreSharding
Sum256Prefix(key) ==
    CASE key = "a" -> <<202, 151, 129, 18, 202, 27, 189, 202>>
      [] key = "b" -> <<62, 35, 232, 22, 0, 57, 89, 74>>
      [] key = "c" -> <<46, 125, 44, 3, 169, 80, 122, 226>>
      [] key = "test_key_1" -> <<255, 108, 191, 152, 66, 40, 126, 9>>
      [] key = "test_key_2_different" -> <<247, 181, 212, 239, 221, 49, 191, 208>>

RECURSIVE BigEndianMod(_, _, _)
\* the big-endian number of the bytes, modulo m, byte by byte
BigEndianMod(bytes, m, acc) ==
    IF bytes = <<>> THEN acc
    ELSE BigEndianMod(Tail(bytes), m, (acc * 256 + Head(bytes)) % m)

\* mutant of Uint64Mod: the eight bytes read as a signed integer, whose
\* remainder has the sign of the dividend (m divides 2^64)
Int64Rem(bytes, m) ==
    IF bytes[1] >= 128
    THEN 0 - ((m - BigEndianMod(bytes, m, 0)) % m)
    ELSE BigEndianMod(bytes, m, 0)

\* store.go line 69: binary.BigEndian.Uint64(h[:8]) % ShardCount, unsigned
Uint64Mod(bytes, m) == BigEndianMod(bytes, m, 0)

(* hash: first 8 bytes of SHA-256, big endian, mod ShardCount, tabulated   *)
(* for the keys of the model.                                              *)
hash(key) ==
    CASE key = "a" -> 10
      [] key = "b" -> 10
      [] key = "c" -> 34

Shards == {hash(k) : k \in Keys}

----------------------------------------------------------------------------
(* TTLWheel *)

Add(e, key, expiration) == MapPut(e, key, expiration)

Remove(e, key) == MapDelete(e, key)

\* the keys GetExpired returns
GetExpired(e, now) == {k \in DOMAIN e : now >= e[k]}

\* mutant of AfterGetExpired: the drain empties the wheel
AfterGetExpiredAll(e, now) == EmptyMap

\* the entries GetExpired leaves
AfterGetExpired(e, now) == [k \in (DOMAIN e) \ GetExpired(e, now) |-> e[k]]

----------------------------------------------------------------------------
(* Store: pure parts *)

Value(d, ts, ttl) == [Data |-> d, Timestamp |-> ts, TTL |-> ttl]

\* Set, lines 85-89: the expiration of the new version
Expiration(now, ttlMs) == IF ttlMs > 0 THEN now + ttlMs ELSE 0

\* Set, lines 85-89: the wheel after the conditional Add
SetWheel(e, key, now, ttlMs) ==
    IF ttlMs > 0 THEN Add(e, key, now + ttlMs) ELSE e

\* mutant of AppendVersion: the new version is put at the head of the chain
AppendVersionFront(versions, val) ==
    LET all == <<val>> \o versions
    IN  IF Len(all) > MaxVersions THEN SubSeq(all, 1, MaxVersions) ELSE all

\* mutant of AppendVersion: the chain is never cut
AppendVersionNoTrim(versions, val) == Append(versions, val)

\* Set, lines 108-114: append and keep the latest MaxVersions
AppendVersion(versions, val) ==
    LET all == Append(versions, val)
    IN  IF Len(all) > MaxVersions
        THEN SubSeq(all, Len(all) - MaxVersions + 1, Len(all))
        ELSE all

\* Set, lines 97-114: get or create the chain of key and append to it
SetData(d, key, val) ==
    MapPut(d, key, AppendVersion(IF key \in DOMAIN d THEN d[key] ELSE <<>>, val))

NotFound == [value |-> 0, found |-> FALSE]

Found(v) == [value |-> v, found |-> TRUE]

RECURSIVE ScanBackStrict(_, _, _)
\* mutant of ScanBack: line 141 with < for <=
ScanBackStrict(versions, i, timestamp) ==
    IF i = 0 THEN NotFound
    ELSE IF versions[i].Timestamp < timestamp
         THEN IF versions[i].TTL > 0 /\ timestamp >= versions[i].TTL
              THEN NotFound
              ELSE Found(versions[i].Data)
         ELSE ScanBackStrict(versions, i - 1, timestamp)

RECURSIVE ScanBackLateExpiry(_, _, _)
\* mutant of ScanBack: line 143 with > for >=
ScanBackLateExpiry(versions, i, timestamp) ==
    IF i = 0 THEN NotFound
    ELSE IF versions[i].Timestamp <= timestamp
         THEN IF versions[i].TTL > 0 /\ timestamp > versions[i].TTL
              THEN NotFound
              ELSE Found(versions[i].Data)
         ELSE ScanBackLateExpiry(versions, i - 1, timestamp)

RECURSIVE ScanBack(_, _, _)
\* GetAt, lines 138-155: the loop from the tail down to index i
ScanBack(versions, i, timestamp) ==
    IF i = 0 THEN NotFound
    ELSE IF versions[i].Timestamp <= timestamp
         THEN IF versions[i].TTL > 0 /\ timestamp >= versions[i].TTL
              THEN NotFound
              ELSE Found(versions[i].Data)
         ELSE ScanBack(versions, i - 1, timestamp)

GetAt(key, timestamp) ==
    IF key \notin DOMAIN data THEN NotFound
    ELSE ScanBack(data[key], Len(data[key]), timestamp)

Get(key) == GetAt(key, clock)

\* mutant of TTL: line 228 with > for >=
TTLLateExpiry(key) ==
    IF key \notin DOMAIN data THEN -2
    ELSE IF Len(data[key]) = 0 THEN -2
    ELSE LET latestVersion == data[key][Len(data[key])]
         IN  IF latestVersion.TTL = 0 THEN -1
             ELSE IF clock > latestVersion.TTL THEN -2
             ELSE latestVersion.TTL - clock

TTL(key) ==
    IF key \notin DOMAIN data THEN -2
    ELSE IF Len(data[key]) = 0 THEN -2
    ELSE LET latestVersion == data[key][Len(data[key])]
         IN  IF latestVersion.TTL = 0 THEN -1
             ELSE IF clock >= latestVersion.TTL THEN -2
             ELSE latestVersion.TTL - clock


Swap(s, i, j) == [s EXCEPT ![i] = s[j], ![j] = s[i]]

RECURSIVE SiftDown(_, _)
\* inner loop of the insertion sort with less(i, j) = Timestamp[i] > Timestamp[j]
SiftDown(s, j) ==
    IF j > 1 /\ s[j].Timestamp > s[j - 1].Timestamp
    THEN SiftDown(Swap(s, j, j - 1), j - 1)
    ELSE s

\* mutant of SortFrom: the chain reversed, as if it were in timestamp order
SortFromReverse(s, i) == [j \in 1..Len(s) |-> s[Len(s) - j + 1]]

RECURSIVE SortFrom(_, _)
\* sort.Slice on at most MaxVersions (<= 12) elements is an insertion sort
SortFrom(s, i) == IF i > Len(s) THEN s ELSE SortFrom(SiftDown(s, i), i + 1)

History(key, limit) ==
    IF key \notin DOMAIN data THEN <<>>
    ELSE LET versions == SortFrom(data[key], 2)
         IN  IF limit > 0 /\ limit < Len(versions)
             THEN SubSeq(versions, 1, limit)
             ELSE versions

----------------------------------------------------------------------------
(* Dispatcher *)

\* Go's integer division truncates toward zero
GoDiv(a, b) == IF a >= 0 THEN a \div b ELSE -((-a) \div b)

\* handleTTL: the Integer of the reply
handleTTL(key) == GoDiv(TTL(key), 1000)

----------------------------------------------------------------------------
(* Initial state: NewStore, no call in progress *)

IdleOp == [key |-> "", value |-> 0, ttlMs |-> 0, now |-> 0]

NoEffect == [kind |-> "none", value |-> 0, ttlMs |-> 0, w |-> 0]

\* main.go lines 25-44: the process before main starts its goroutines: the
\* position of main, its WaitGroup, the three goroutines it starts, the
\* listener, the accept loop, the connection tasks and what main reports
InitProc ==
    [pc |-> "init", wg |-> 0, tcp |-> "none", http |-> "none", bg |-> "none",
     listener |-> "none", accept |-> "none", conns |-> 0, report |-> "none"]

\* lines 47-64 (NewStore): a fresh context, an empty WaitGroup, no goroutine
InitLife ==
    [sctx |-> FALSE, token |-> FALSE, wg |-> 0, gpc |-> "none", cpc |-> "idle",
     proc |-> InitProc]

\* a task that runs no store operation
\* totalKeys and totalVersions of a Stats call, and what the shard it is
\* visiting has added to them
NoTotals == [keys |-> 0, versions |-> 0, shardKeys |-> 0, shardVersions |-> 0]

IdleTask == [name |-> "idle", key |-> "", ttlMs |-> 0, now |-> 0,
             todo |-> <<>>, held |-> {}, rel |-> {}, totals |-> NoTotals]

InitTask == [t \in LockTasks |-> IdleTask]

\* resp.go lines 23-29: RESPValue.  Type is the type byte; a string is the
\* sequence of its characters
RESPValue(type, str, int, arr, null) ==
    [Type |-> type, String |-> str, Int |-> int, Array |-> arr, Null |-> null]

\* RESPValue{}
NoValue == RESPValue("", <<>>, 0, <<>>, FALSE)

\* server.go lines 26-30: an accepted connection, nothing read or written yet
InitConn ==
    [state |-> "open", pos |-> "read", inbuf |-> <<>>, req |-> NoValue,
     resp |-> NoValue, answered |-> FALSE, handled |-> 0, out |-> <<>>,
     sent |-> 0, wire |-> <<>>, got |-> <<>>]

Init ==
    /\ clock = 1
    /\ data = EmptyMap
    /\ entries = EmptyMap
    /\ shardMu = [s \in Shards |-> NoOwner]
    /\ pc = [p \in Clients |-> "idle"]
    /\ op = [p \in Clients |-> IdleOp]
    /\ ret = FALSE
    /\ epc = "idle"
    /\ enow = 0
    /\ expiredKeys = {}
    /\ lastEff = [k \in Keys |-> NoEffect]
    /\ writes = <<>>
    /\ life = InitLife
    /\ task = InitTask
    /\ conn = InitConn

ChainLen(key) == IF key \in DOMAIN data THEN Len(data[key]) ELSE 0

\* Set calls on key that have started and not yet appended
SetsInFlight(key) ==
    Cardinality({q \in Clients : pc[q] \in {"set_lock", "set_append"} /\ op[q].key = key})

----------------------------------------------------------------------------
(* Store.Set *)

\* line 79: the clock is read before the shard lock is requested
SetBegin(p, key, value, ttlMs) ==
    /\ pc[p] = "idle"
    /\ ChainLen(key) + SetsInFlight(key) < MaxChain
    /\ op' = [op EXCEPT ![p] = [key |-> key, value |-> value, ttlMs |-> ttlMs, now |-> clock]]
    /\ pc' = [pc EXCEPT ![p] = "set_lock"]
    /\ UNCHANGED <<clock, data, entries, shardMu, ret, epc, enow, expiredKeys, lastEff, writes, life, task, conn>>

\* lines 82-89: shard.mu.Lock, then ttlWheel.Add when ttlMs > 0
SetLockAdd(p) ==
    /\ pc[p] = "set_lock"
    /\ shardMu[hash(op[p].key)] = NoOwner
    /\ shardMu' = [shardMu EXCEPT ![hash(op[p].key)] = p]
    /\ entries' = SetWheel(entries, op[p].key, op[p].now, op[p].ttlMs)
    /\ pc' = [pc EXCEPT ![p] = "set_append"]
    /\ UNCHANGED <<clock, data, op, ret, epc, enow, expiredKeys, lastEff, writes, life, task, conn>>

\* lines 91-115: append under the chain lock, truncate, unlock both
SetAppend(p) ==
    /\ pc[p] = "set_append"
    /\ data' = SetData(data, op[p].key,
                       Value(op[p].value, op[p].now, Expiration(op[p].now, op[p].ttlMs)))
    /\ shardMu' = [shardMu EXCEPT ![hash(op[p].key)] = NoOwner]
    /\ lastEff' = [lastEff EXCEPT ![op[p].key] =
                      [kind |-> "set", value |-> op[p].value, ttlMs |-> op[p].ttlMs, w |-> op[p].now]]
    /\ pc' = [pc EXCEPT ![p] = "idle"]
    /\ op' = [op EXCEPT ![p] = IdleOp]
    /\ UNCHANGED <<clock, entries, ret, epc, enow, expiredKeys, writes, life, task, conn>>

----------------------------------------------------------------------------
(* Store.Delete: the whole call is one critical section of the shard lock *)

\* mutant of DeleteData: the map of the shard is emptied
DeleteDataShard(d, key) == [k \in {x \in DOMAIN d : hash(x) # hash(key)} |-> d[k]]

\* Delete, line 167: delete(shard.data, key)
DeleteData(d, key) == MapDelete(d, key)

\* mutant of DeleteWheel: line 168 left out
DeleteWheelKeep(e, key) == e

DeleteWheel(e, key) == Remove(e, key)

Delete(p, key) ==
    /\ pc[p] = "idle"
    /\ shardMu[hash(key)] = NoOwner
    /\ IF key \in DOMAIN data
       THEN /\ data' = DeleteData(data, key)
            /\ entries' = DeleteWheel(entries, key)
            /\ ret' = TRUE
            /\ lastEff' = [lastEff EXCEPT ![key] =
                              [kind |-> "del", value |-> 0, ttlMs |-> 0, w |-> clock]]
       ELSE /\ ret' = FALSE
            /\ UNCHANGED <<data, entries, lastEff>>
    /\ UNCHANGED <<clock, shardMu, pc, op, epc, enow, expiredKeys, writes, life, task, conn>>

----------------------------------------------------------------------------
(* Store.Expire *)

\* mutant of SetTailTTL: every version of the chain is stamped
SetTailTTLAll(versions, expiration) ==
    [i \in 1..Len(versions) |-> [versions[i] EXCEPT !.TTL = expiration]]

SetTailTTL(versions, expiration) ==
    [versions EXCEPT ![Len(versions)].TTL = expiration]

\* lines 177-197: lock, look the key up, stamp the tail
ExpireUpdate(p, key, ttlMs) ==
    /\ pc[p] = "idle"
    /\ shardMu[hash(key)] = NoOwner
    /\ IF key \notin DOMAIN data \/ ChainLen(key) = 0
       THEN /\ ret' = FALSE
            /\ UNCHANGED <<data, shardMu, pc, op, lastEff>>
       ELSE /\ data' = [data EXCEPT ![key] = SetTailTTL(data[key], clock + ttlMs)]
            /\ shardMu' = [shardMu EXCEPT ![hash(key)] = p]
            /\ op' = [op EXCEPT ![p] = [key |-> key, value |-> 0, ttlMs |-> ttlMs, now |-> clock]]
            /\ pc' = [pc EXCEPT ![p] = "expire_add"]
            /\ lastEff' = [lastEff EXCEPT ![key] =
                              [kind |-> "expire", value |-> 0, ttlMs |-> ttlMs, w |-> clock]]
            /\ UNCHANGED ret
    /\ UNCHANGED <<clock, entries, epc, enow, expiredKeys, writes, life, task, conn>>

\* lines 199-200: ttlWheel.Add under both locks, then unlock and return true
ExpireAdd(p) ==
    /\ pc[p] = "expire_add"
    /\ entries' = Add(entries, op[p].key, op[p].now + op[p].ttlMs)
    /\ shardMu' = [shardMu EXCEPT ![hash(op[p].key)] = NoOwner]
    /\ ret' = TRUE
    /\ pc' = [pc EXCEPT ![p] = "idle"]
    /\ op' = [op EXCEPT ![p] = IdleOp]
    /\ UNCHANGED <<clock, data, epc, enow, expiredKeys, lastEff, writes, life, task, conn>>

----------------------------------------------------------------------------
(* Store.expireKeys, run by the ticker goroutine *)

\* line 286
SweepStart ==
    /\ epc = "idle"
    /\ enow' = clock
    /\ epc' = "drain"
    /\ UNCHANGED <<clock, data, entries, shardMu, pc, op, ret, expiredKeys, lastEff, writes, life, task, conn>>

\* line 287
SweepDrain ==
    /\ epc = "drain"
    /\ expiredKeys' = GetExpired(entries, enow)
    /\ entries' = AfterGetExpired(entries, enow)
    /\ IF GetExpired(entries, enow) = {}
       THEN epc' = "idle" /\ enow' = 0
       ELSE epc' = "loop" /\ UNCHANGED enow
    /\ UNCHANGED <<clock, data, shardMu, pc, op, ret, lastEff, writes, life, task, conn>>

\* mutant of SweepData: the drained key is removed without the recheck
SweepDataNoRecheck(d, key, now) ==
    IF key \in DOMAIN d THEN MapDelete(d, key) ELSE d

\* lines 293-303: the recheck of the tail under the shard lock
SweepData(d, key, now) ==
    IF key \in DOMAIN d
    THEN IF Len(d[key]) > 0
         THEN IF d[key][Len(d[key])].TTL > 0 /\ now >= d[key][Len(d[key])].TTL
              THEN MapDelete(d, key)
              ELSE d
         ELSE d
    ELSE d

\* lines 289-305: one iteration of the loop (map order is not specified)
SweepKey(key) ==
    /\ epc = "loop"
    /\ key \in expiredKeys
    /\ shardMu[hash(key)] = NoOwner
    /\ data' = SweepData(data, key, enow)
    /\ expiredKeys' = expiredKeys \ {key}
    /\ IF expiredKeys = {key}
       THEN epc' = "idle" /\ enow' = 0
       ELSE UNCHANGED <<epc, enow>>
    /\ UNCHANGED <<clock, entries, shardMu, pc, op, ret, lastEff, writes, life, task, conn>>

Tick ==
    /\ clock < MaxClock
    /\ clock' = clock + 1
    /\ UNCHANGED <<data, entries, shardMu, pc, op, ret, epc, enow, expiredKeys, lastEff, writes, life, task, conn>>

Next ==
    \/ \E p \in Clients, key \in Keys, value \in Values, ttlMs \in SetTTLs :
           SetBegin(p, key, value, ttlMs)
    \/ \E p \in Clients : SetLockAdd(p)
    \/ \E p \in Clients : SetAppend(p)
    \/ \E p \in Clients, key \in Keys : Delete(p, key)
    \/ \E p \in Clients, key \in Keys, ttlMs \in ExpireTTLs : ExpireUpdate(p, key, ttlMs)
    \/ \E p \in Clients : ExpireAdd(p)
    \/ SweepStart
    \/ SweepDrain
    \/ \E key \in Keys : SweepKey(key)
    \/ Tick

Spec == Init /\ [][Next]_vars

----------------------------------------------------------------------------
(* One client calling Set(key, v_i, 0), i = 1, 2, ..., no other task running. *)
(* Each call runs lines 78-115 without interleaving; v_i is modelled as i.   *)

LastWriteTs == IF writes = <<>> THEN 1 ELSE writes[Len(writes)].Timestamp

LongSet(key) ==
    /\ Len(writes) < MaxSets
    /\ entries' = SetWheel(entries, key, clock, 0)
    /\ data' = SetData(data, key, Value(Len(writes) + 1, clock, Expiration(clock, 0)))
    /\ lastEff' = [lastEff EXCEPT ![key] =
                      [kind |-> "set", value |-> Len(writes) + 1, ttlMs |-> 0, w |-> clock]]
    /\ writes' = Append(writes, [Data |-> Len(writes) + 1, Timestamp |-> clock])
    /\ UNCHANGED <<clock, shardMu, pc, op, ret, epc, enow, expiredKeys, life, task, conn>>

LongTick ==
    /\ (clock + 1) - LastWriteTs \in Gaps
    /\ clock' = clock + 1
    /\ UNCHANGED <<data, entries, shardMu, pc, op, ret, epc, enow, expiredKeys, lastEff, writes, life, task, conn>>

NextLong == (\E key \in Keys : LongSet(key)) \/ LongTick

SpecLong == Init /\ [][NextLong]_vars

----------------------------------------------------------------------------
(* Properties *)

TailOf(key) == data[key][Len(data[key])]

Min(a, b) == IF a < b THEN a ELSE b

\* no client call and no sweep is in progress
Quiescent == (\A p \in Clients : pc[p] = "idle") /\ epc = "idle"

\* C1: after n Sets on one key and no Delete or sweep, History(k, 0) has
\* min(n, MaxVersions) entries and lists them in reverse order of insertion.
C1_Retention ==
    \A k \in DOMAIN data :
        LET h == History(k, 0)
            n == Len(writes)
            m == Min(n, MaxVersions)
        IN  /\ Len(h) = m
            /\ \A i \in 1..m : h[i].Data = writes[n - i + 1].Data

\* C2: the write_ts values of a chain are non-decreasing in chain order.
C2_ChainTimestampsNonDecreasing ==
    \A k \in DOMAIN data :
        \A i \in 1..(Len(data[k]) - 1) :
            data[k][i].Timestamp <= data[k][i + 1].Timestamp

StrictlyIncreasing(w) ==
    \A i \in 1..(Len(w) - 1) : w[i].Timestamp < w[i + 1].Timestamp

\* index of the oldest write the chain still holds
OldestRetained == Len(writes) - Min(Len(writes), MaxVersions) + 1

\* C3 as stated: for Sets with strictly increasing write_ts, of any number,
\* GetAt(k, ts_i) = v_i and GetAt(k, ts_i - 1) = v_(i-1), not-found for i = 1.
C3_SnapshotAllWrites ==
    \A k \in DOMAIN data :
        StrictlyIncreasing(writes) =>
            \A i \in 1..Len(writes) :
                /\ GetAt(k, writes[i].Timestamp) = Found(writes[i].Data)
                /\ GetAt(k, writes[i].Timestamp - 1) =
                       IF i = 1 THEN NotFound ELSE Found(writes[i - 1].Data)

\* C3 amended: the same for the writes among the last MaxVersions; below the
\* oldest retained write GetAt returns not-found.
C3_SnapshotRetainedWrites ==
    \A k \in DOMAIN data :
        StrictlyIncreasing(writes) =>
            \A i \in OldestRetained..Len(writes) :
                /\ GetAt(k, writes[i].Timestamp) = Found(writes[i].Data)
                /\ GetAt(k, writes[i].Timestamp - 1) =
                       IF i = OldestRetained THEN NotFound ELSE Found(writes[i - 1].Data)

C3_Witness ==
    /\ Len(writes) > MaxVersions
    /\ StrictlyIncreasing(writes)
    /\ \E i \in OldestRetained..(Len(writes) - 1) :
           writes[i + 1].Timestamp - 1 > writes[i].Timestamp

\* C4: while the mutation that took effect last on k is Set(k, v, 0), Get(k)
\* returns v; while it is a successful Delete(k), Get(k) returns not-found.
C4_ReadYourWrites ==
    \A k \in Keys :
        /\ (lastEff[k].kind = "set" /\ lastEff[k].ttlMs = 0) =>
               Get(k) = Found(lastEff[k].value)
        /\ lastEff[k].kind = "del" => Get(k) = NotFound

\* two Sets overlapped: the one that read the clock first appended last
C4_Witness ==
    \E k \in DOMAIN data :
        /\ lastEff[k].kind = "set" /\ lastEff[k].ttlMs = 0
        /\ Len(data[k]) = 2
        /\ data[k][1].Timestamp > data[k][2].Timestamp
        /\ data[k][1].Data # data[k][2].Data

\* C5: in a quiescent state every TTL index entry belongs to a present key
\* and equals the expiry_ts of its chain tail.
C5_IndexMatchesTail ==
    Quiescent =>
        \A k \in DOMAIN entries :
            k \in DOMAIN data /\ entries[k] = TailOf(k).TTL

\* C6: Set with ttl_ms > 0 makes the index entry now + ttl_ms; when
\* Set(k, v, 0) returns, the index holds no entry for k.
C6_SetUpdatesIndex ==
    [][\A p \in Clients :
          /\ (SetLockAdd(p) /\ op[p].ttlMs > 0) =>
                 /\ op[p].key \in DOMAIN entries'
                 /\ entries'[op[p].key] = op[p].now + op[p].ttlMs
          /\ (SetAppend(p) /\ op[p].ttlMs = 0) =>
                 op[p].key \notin DOMAIN entries']_vars

\* C7: after Set(k, v, ttl), ttl > 0, written at w and no later write to k,
\* Get(k) returns v before w + ttl; from w + ttl on Get(k) returns not-found
\* and TTL(k) = -2, swept or not.
C7_TTLLifecycle ==
    \A k \in Keys :
        (lastEff[k].kind = "set" /\ lastEff[k].ttlMs > 0) =>
            /\ clock < lastEff[k].w + lastEff[k].ttlMs =>
                   Get(k) = Found(lastEff[k].value)
            /\ clock >= lastEff[k].w + lastEff[k].ttlMs =>
                   Get(k) = NotFound /\ TTL(k) = -2

\* the key expired and the expirer has not removed it yet
C7_Witness ==
    \E k \in DOMAIN data :
        /\ lastEff[k].kind = "set" /\ lastEff[k].ttlMs > 0
        /\ clock >= lastEff[k].w + lastEff[k].ttlMs

\* C8: TTL(k) = -2 for an absent key or a tail whose expiry has passed, -1
\* for a tail without expiry, else expiry_ts - now; and 0 < TTL(k) <= ttl
\* for a key whose last write is Set or Expire with ttl > 0, not yet expired.
C8_TTLSentinels ==
    \A k \in Keys :
        /\ k \notin DOMAIN data => TTL(k) = -2
        /\ k \in DOMAIN data =>
               /\ TailOf(k).TTL = 0 => TTL(k) = -1
               /\ (TailOf(k).TTL # 0 /\ clock >= TailOf(k).TTL) => TTL(k) = -2
               /\ (TailOf(k).TTL # 0 /\ clock < TailOf(k).TTL) => TTL(k) = TailOf(k).TTL - clock
        /\ ( /\ lastEff[k].kind \in {"set", "expire"}
             /\ lastEff[k].ttlMs > 0
             /\ clock < lastEff[k].w + lastEff[k].ttlMs ) =>
               (0 < TTL(k) /\ TTL(k) <= lastEff[k].ttlMs)

C8_Witness ==
    \E k \in DOMAIN data :
        /\ lastEff[k].kind = "expire"
        /\ 0 < TTL(k) /\ TTL(k) < lastEff[k].ttlMs

\* C9: the TTL command replies -2 for a missing or expired key, -1 for a key
\* without expiration, else the remaining milliseconds divided by 1000.
C9_TTLCommandSeconds ==
    \A k \in Keys :
        handleTTL(k) =
            IF k \notin DOMAIN data THEN -2
            ELSE IF TailOf(k).TTL = 0 THEN -1
            ELSE IF clock >= TailOf(k).TTL THEN -2
            ELSE (TailOf(k).TTL - clock) \div 1000

\* C10: Delete(k) returns true exactly when k was present; it then leaves no
\* chain and no index entry (History empty, TTL = -2); on an absent key it
\* changes nothing.
C10_Delete ==
    [][\A p \in Clients, k \in Keys :
          Delete(p, k) =>
              /\ ret' = (k \in DOMAIN data)
              /\ k \in DOMAIN data =>
                     /\ k \notin DOMAIN data'
                     /\ k \notin DOMAIN entries'
                     /\ History(k, 0)' = <<>>
                     /\ TTL(k)' = -2
              /\ k \notin DOMAIN data => (data' = data /\ entries' = entries)]_vars

\* a Delete has succeeded and the key has not been set again
C10_Witness ==
    \E k \in Keys :
        /\ lastEff[k].kind = "del"
        /\ ret = TRUE
        /\ k \notin DOMAIN data
        /\ k \notin DOMAIN entries

----------------------------------------------------------------------------
(* Spec with the scheduling the runtime gives: the ticker keeps firing, a   *)
(* task that holds a lock runs on, and a task waiting for a lock gets it.   *)

Fairness ==
    /\ WF_vars(SweepStart)
    /\ WF_vars(SweepDrain)
    /\ \A key \in Keys : SF_vars(SweepKey(key))
    /\ \A p \in Clients : SF_vars(SetLockAdd(p))
    /\ \A p \in Clients : WF_vars(SetAppend(p))
    /\ \A p \in Clients : WF_vars(ExpireAdd(p))

FairValues == {1}    \* the value written plays no part in expiry

NextFair ==
    \/ \E p \in Clients, key \in Keys, value \in FairValues, ttlMs \in SetTTLs :
           SetBegin(p, key, value, ttlMs)
    \/ \E p \in Clients : SetLockAdd(p)
    \/ \E p \in Clients : SetAppend(p)
    \/ \E p \in Clients, key \in Keys : Delete(p, key)
    \/ \E p \in Clients, key \in Keys, ttlMs \in ExpireTTLs : ExpireUpdate(p, key, ttlMs)
    \/ \E p \in Clients : ExpireAdd(p)
    \/ SweepStart
    \/ SweepDrain
    \/ \E key \in Keys : SweepKey(key)
    \/ Tick

SpecFair == Init /\ [][NextFair]_vars /\ Fairness

\* the tail of key carries an expiry that has passed
ExpiredTail(key) ==
    /\ key \in DOMAIN data
    /\ TailOf(key).TTL > 0
    /\ clock >= TailOf(key).TTL

\* C11: Expire on a present key stamps the tail with now + ttl_ms, changes
\* nothing else of the chain, sets the index entry to the same value and
\* returns true.
C11_ExpireFrame ==
    [][/\ \A p \in Clients, k \in Keys, ttlMs \in ExpireTTLs :
             (ExpireUpdate(p, k, ttlMs) /\ k \in DOMAIN data) =>
                 /\ DOMAIN data' = DOMAIN data
                 /\ Len(data'[k]) = Len(data[k])
                 /\ data'[k][Len(data[k])].TTL = clock + ttlMs
                 /\ \A i \in 1..Len(data[k]) :
                        /\ data'[k][i].Data = data[k][i].Data
                        /\ data'[k][i].Timestamp = data[k][i].Timestamp
                        /\ i < Len(data[k]) => data'[k][i].TTL = data[k][i].TTL
       /\ \A p \in Clients :
             ExpireAdd(p) =>
                 /\ ret' = TRUE
                 /\ data' = data
                 /\ op[p].key \in DOMAIN entries'
                 /\ entries'[op[p].key] = op[p].now + op[p].ttlMs
                 /\ entries'[op[p].key] = data'[op[p].key][Len(data'[op[p].key])].TTL]_vars

\* Expire has returned on a chain of two versions with different expiry
C11_Witness ==
    \E k \in DOMAIN data :
        /\ lastEff[k].kind = "expire"
        /\ ret = TRUE
        /\ \A p \in Clients : pc[p] = "idle"
        /\ Len(data[k]) = 2
        /\ k \in DOMAIN entries
        /\ entries[k] = TailOf(k).TTL
        /\ data[k][1].TTL # TailOf(k).TTL

\* C13: the expirer removes a key only if, at the removal, its tail has a
\* non-zero expiry_ts <= the sweep's now; a tail without expiry or with a
\* later expiry keeps the key.
C13_ExpirerGuard ==
    [][\A k \in Keys :
          (SweepKey(k) /\ k \in DOMAIN data) =>
              /\ k \notin DOMAIN data' =>
                     (TailOf(k).TTL > 0 /\ TailOf(k).TTL <= enow /\ TailOf(k).TTL <= clock)
              /\ (TailOf(k).TTL = 0 \/ TailOf(k).TTL > enow) => data' = data]_vars

\* the key was drained, and by the time of the visit its tail is not due
C13_Witness ==
    \E k \in DOMAIN data :
        /\ epc = "loop"
        /\ k \in expiredKeys
        /\ shardMu[hash(k)] = NoOwner
        /\ (TailOf(k).TTL = 0 \/ TailOf(k).TTL > enow)

\* C14: a key whose tail has expired is eventually removed, unless a later
\* Set or Expire replaces or restamps the tail.
C14_ExpirerLiveness ==
    \A k \in Keys : ExpiredTail(k) ~> ~ExpiredTail(k)

\* an expired key whose index entry has been drained and that is still present
C14_Witness ==
    \E k \in Keys :
        /\ ExpiredTail(k)
        /\ k \notin DOMAIN entries
        /\ k \in expiredKeys

----------------------------------------------------------------------------
(* SpecLife: start and shutdown of the expirer goroutine.  One client       *)
(* writes keys with a TTL, the goroutine of StartBackgroundProcesses sweeps *)
(* them, the caller may cancel the token it passed, and Close is called.    *)

LifeClient == "c1"

storeVars == <<clock, data, entries, shardMu, pc, op, ret, epc, enow,
               expiredKeys, lastEff, writes>>

\* store.go lines 266-270: wg.Add(1) and the goroutine starts, selecting on
\* the ctx it was passed
StartBackgroundProcesses ==
    /\ life.gpc = "none"
    /\ life.cpc = "idle"
    /\ life' = [life EXCEPT !.wg = life.wg + 1, !.gpc = "select"]
    /\ UNCHANGED <<storeVars, task, conn>>

\* the caller cancels the token it passed to StartBackgroundProcesses
CancelToken ==
    /\ ~life.token
    /\ life' = [life EXCEPT !.token = TRUE]
    /\ UNCHANGED <<storeVars, task, conn>>

\* lines 275-278: case <-ticker.C: s.expireKeys()
ExpirerTick ==
    /\ life.gpc = "select"
    /\ SweepStart

\* lines 273-274 and 271: case <-ctx.Done(): return, with defer s.wg.Done()
ExpirerExit ==
    /\ life.gpc = "select"
    /\ epc = "idle"
    /\ life.token
    /\ life' = [life EXCEPT !.gpc = "exited", !.wg = life.wg - 1]
    /\ UNCHANGED <<storeVars, task, conn>>

\* line 310: s.cancel() cancels the context NewStore made
CloseCancel ==
    /\ life.cpc = "idle"
    /\ life' = [life EXCEPT !.sctx = TRUE, !.cpc = "wait"]
    /\ UNCHANGED <<storeVars, task, conn>>

\* line 311: s.wg.Wait() returns when the counter is zero
CloseReturn ==
    /\ life.cpc = "wait"
    /\ life.wg = 0
    /\ life' = [life EXCEPT !.cpc = "returned"]
    /\ UNCHANGED <<storeVars, task, conn>>

NextLife ==
    \/ \E key \in Keys, value \in Values, ttlMs \in SetTTLs :
           SetBegin(LifeClient, key, value, ttlMs)
    \/ SetLockAdd(LifeClient)
    \/ SetAppend(LifeClient)
    \/ Tick
    \/ StartBackgroundProcesses
    \/ CancelToken
    \/ ExpirerTick
    \/ SweepDrain
    \/ \E key \in Keys : SweepKey(key)
    \/ ExpirerExit
    \/ CloseCancel
    \/ CloseReturn

SpecLife == Init /\ [][NextLife]_vars

\* the ticker keeps firing, the goroutine and Close run on, select takes a
\* ready case sooner or later; nothing obliges the caller to cancel the token
FairnessLife ==
    /\ WF_vars(ExpirerTick)
    /\ WF_vars(SweepDrain)
    /\ \A key \in Keys : SF_vars(SweepKey(key))
    /\ SF_vars(SetLockAdd(LifeClient))
    /\ WF_vars(SetAppend(LifeClient))
    /\ SF_vars(ExpirerExit)
    /\ WF_vars(CloseReturn)

SpecLifeFair == SpecLife /\ FairnessLife

\* C15: a Close() that has been called returns, and once it has returned the
\* expirer goroutine has exited and no sweep is running.
C15_CloseStopsExpirer ==
    /\ (life.cpc = "wait") ~> (life.cpc = "returned")
    /\ [](life.cpc = "returned" => (life.gpc # "select" /\ epc = "idle"))

----------------------------------------------------------------------------
(* SpecLocks: the lock events of every store operation, in program order.   *)
(* A task carries the events it has still to run (todo), the locks it holds *)
(* and the locks it has released in the current operation.  An acquisition  *)
(* that is followed by a lookup in the code expands, when it is granted,    *)
(* into the events of the branch the lookup selects.                        *)

LockKeys == {"a", "c"}
LockSetTTLs == {0, 2}
LockExpireTTLs == {0}
ReadOps == {"GetAt", "TTL", "History"}

ShardMu(i) == [kind |-> "shard", shard |-> i, key |-> ""]
ChainMu(key) == [kind |-> "chain", shard |-> hash(key), key |-> key]
WheelMu == [kind |-> "wheel", shard |-> -1, key |-> ""]

Ev(act, mu, eff, then, key) ==
    [act |-> act, mu |-> mu, eff |-> eff, then |-> then, key |-> key]

IsAcquire(e) == e.act \in {"Lock", "RLock"}

ModeOf(e) == IF e.act \in {"Lock", "Unlock"} THEN "W" ELSE "R"

RECURSIVE Orders(_)
\* the orders in which a Go map or a slice filled from one can be ranged over
Orders(S) ==
    IF S = {} THEN {<<>>}
    ELSE UNION {{<<x>> \o o : o \in Orders(S \ {x})} : x \in S}

RECURSIVE Ascending(_)
Ascending(S) ==
    IF S = {} THEN <<>>
    ELSE LET m == CHOOSE x \in S : \A y \in S : x <= y
         IN  <<m>> \o Ascending(S \ {m})

RECURSIVE Flatten(_)
Flatten(ss) == IF ss = <<>> THEN <<>> ELSE Head(ss) \o Flatten(Tail(ss))

\* ttlWheel.Add / Remove / GetExpired: mu.Lock(), defer mu.Unlock()
WheelCall(eff, then, key) ==
    <<Ev("Lock", WheelMu, "", "", key), Ev("Unlock", WheelMu, eff, then, key)>>

\* Set, line 82
SetLocks(key) == <<Ev("Lock", ShardMu(hash(key)), "", "set", key)>>

\* mutant of SetRest: the chain is locked first and the shard lock taken again
SetRestChainFirst(key, ttlMs) ==
    <<Ev("Unlock", ShardMu(hash(key)), "", "", key),
      Ev("Lock", ChainMu(key), "", "", key),
      Ev("Lock", ShardMu(hash(key)), "", "", key),
      Ev("Unlock", ChainMu(key), "append", "", key),
      Ev("Unlock", ShardMu(hash(key)), "", "", key)>>

\* Set, lines 85-114: Add when ttlMs > 0, history.mu.Lock(), append, and the
\* deferred unlocks in reverse order
SetRest(key, ttlMs) ==
    (IF ttlMs > 0 THEN WheelCall("add", "", key) ELSE <<>>)
    \o <<Ev("Lock", ChainMu(key), "create", "", key),
         Ev("Unlock", ChainMu(key), "append", "", key),
         Ev("Unlock", ShardMu(hash(key)), "", "", key)>>

\* GetAt lines 126, TTL 207, History 239
ReadLocks(key) == <<Ev("RLock", ShardMu(hash(key)), "", "read", key)>>

\* GetAt lines 127-135, TTL 208-215, History 240-248: the shard lock is
\* released before the chain is read-locked
ReadRest(key) ==
    <<Ev("RUnlock", ShardMu(hash(key)), "", "", key)>>
    \o (IF key \in DOMAIN data
        THEN <<Ev("RLock", ChainMu(key), "", "", key),
               Ev("RUnlock", ChainMu(key), "", "", key)>>
        ELSE <<>>)

\* Delete, line 162
DeleteLocks(key) == <<Ev("Lock", ShardMu(hash(key)), "", "delete", key)>>

\* Delete, lines 163-172
DeleteRest(key) ==
    (IF key \in DOMAIN data THEN WheelCall("delete", "", key) ELSE <<>>)
    \o <<Ev("Unlock", ShardMu(hash(key)), "", "", key)>>

\* Expire, line 179
ExpireLocks(key) == <<Ev("Lock", ShardMu(hash(key)), "", "expire", key)>>

\* Expire, lines 182-200: history.mu.Lock() at 187, ttlWheel.Add at 199
ExpireRest(key) ==
    IF key \in DOMAIN data
    THEN <<Ev("Lock", ChainMu(key), "", "", key)>>
         \o WheelCall("expire", "", key)
         \o <<Ev("Unlock", ChainMu(key), "", "", key),
              Ev("Unlock", ShardMu(hash(key)), "", "", key)>>
    ELSE <<Ev("Unlock", ShardMu(hash(key)), "", "", key)>>

\* Stats, lines 319-320: the shards in index order
StatsLocks ==
    LET sh == Ascending({hash(k) : k \in LockKeys})
    IN  [i \in 1..Len(sh) |-> Ev("RLock", ShardMu(sh[i]), "keys", "stats", "")]

\* mutant of StatsRest: the shard lock is released before the chains are
\* counted
StatsRestUnlocked(i) ==
    {<<Ev("RUnlock", ShardMu(i), "", "", "")>>
       \o Flatten([j \in 1..Len(o) |->
                 <<Ev("RLock", ChainMu(o[j]), "versions", "", o[j]),
                   Ev("RUnlock", ChainMu(o[j]), "", "", o[j])>>])
     : o \in Orders({k \in DOMAIN data : hash(k) = i})}

\* Stats, lines 321-327: every chain of the shard, then the shard's RUnlock
StatsRest(i) ==
    {Flatten([j \in 1..Len(o) |->
                 <<Ev("RLock", ChainMu(o[j]), "versions", "", o[j]),
                   Ev("RUnlock", ChainMu(o[j]), "", "", o[j])>>])
       \o <<Ev("RUnlock", ShardMu(i), "", "", "")>>
     : o \in Orders({k \in DOMAIN data : hash(k) = i})}

\* expireKeys, line 287
ExpireKeysLocks == WheelCall("drain", "sweep", "")

\* expireKeys, lines 289-291: one visit per drained key
SweepRest(keys) ==
    {[j \in 1..Len(o) |-> Ev("Lock", ShardMu(hash(o[j])), "", "visit", o[j])]
     : o \in Orders(keys)}

\* expireKeys, lines 292-304
VisitRest(key) ==
    IF key \in DOMAIN data
    THEN <<Ev("RLock", ChainMu(key), "", "", key),
           Ev("RUnlock", ChainMu(key), "", "", key),
           Ev("Unlock", ShardMu(hash(key)), "sweep", "", key)>>
    ELSE <<Ev("Unlock", ShardMu(hash(key)), "", "", key)>>

\* the events that follow a granted acquisition, chosen in the current state
Continuation(tk, e) ==
    CASE e.then = "set" -> {SetRest(e.key, tk.ttlMs)}
      [] e.then = "read" -> {ReadRest(e.key)}
      [] e.then = "delete" -> {DeleteRest(e.key)}
      [] e.then = "expire" -> {ExpireRest(e.key)}
      [] e.then = "stats" -> StatsRest(e.mu.shard)
      [] e.then = "sweep" -> SweepRest(GetExpired(entries, tk.now))
      [] e.then = "visit" -> {VisitRest(e.key)}
      [] OTHER -> {<<>>}

\* what the critical section that ends with e has done to the shard maps
EffData(tk, e) ==
    CASE e.eff = "create" ->
             IF e.key \in DOMAIN data THEN data ELSE MapPut(data, e.key, <<>>)
      [] e.eff = "append" ->
             SetData(data, e.key, Value(1, tk.now, Expiration(tk.now, tk.ttlMs)))
      [] e.eff = "delete" -> DeleteData(data, e.key)
      [] e.eff = "expire" ->
             MapPut(data, e.key, SetTailTTL(data[e.key], tk.now + tk.ttlMs))
      [] e.eff = "sweep" -> SweepData(data, e.key, tk.now)
      [] OTHER -> data

\* what it has done to the TTL index
EffEntries(tk, e) ==
    CASE e.eff = "add" -> SetWheel(entries, e.key, tk.now, tk.ttlMs)
      [] e.eff = "delete" -> DeleteWheel(entries, e.key)
      [] e.eff = "expire" -> Add(entries, e.key, tk.now + tk.ttlMs)
      [] e.eff = "drain" -> AfterGetExpired(entries, tk.now)
      [] OTHER -> entries

\* Stats, lines 321 and 324: what the event adds to the totals
EffTotals(tk, e) ==
    CASE e.eff = "keys" ->
             LET n == Cardinality({k \in DOMAIN data : hash(k) = e.mu.shard})
             IN  [tk.totals EXCEPT !.keys = @ + n, !.shardKeys = n,
                                   !.shardVersions = 0]
      [] e.eff = "versions" ->
             LET n == IF e.key \in DOMAIN data THEN Len(data[e.key]) ELSE 0
             IN  [tk.totals EXCEPT !.versions = @ + n, !.shardVersions = @ + n]
      [] OTHER -> tk.totals

\* sync.RWMutex: Lock waits for every holder, RLock for a writer
Grantable(e) ==
    \A u \in LockTasks : \A h \in task[u].held :
        h.mu = e.mu => (e.act = "RLock" /\ h.mode = "R")

lockFrame == <<clock, shardMu, pc, op, ret, epc, enow, expiredKeys, lastEff,
               writes, life, conn>>

Begin(t, name, key, ttlMs, todo) ==
    /\ task[t].name = "idle"
    /\ task' = [task EXCEPT ![t] = [name |-> name, key |-> key, ttlMs |-> ttlMs,
                                    now |-> clock, todo |-> todo,
                                    held |-> task[t].held, rel |-> {},
                                    totals |-> NoTotals]]
    /\ UNCHANGED <<data, entries, lockFrame>>

BeginSet(t, key, ttlMs) ==
    /\ ChainLen(key) < LockMaxChain
    /\ Begin(t, "Set", key, ttlMs, SetLocks(key))

BeginRead(t, name, key) == Begin(t, name, key, 0, ReadLocks(key))

BeginDelete(t, key) == Begin(t, "Delete", key, 0, DeleteLocks(key))

BeginExpire(t, key, ttlMs) == Begin(t, "Expire", key, ttlMs, ExpireLocks(key))

BeginStats(t) == Begin(t, "Stats", "", 0, StatsLocks)

BeginExpireKeys == Begin("expirer", "expireKeys", "", 0, ExpireKeysLocks)

\* one lock event of task t
Step(t) ==
    /\ task[t].todo # <<>>
    /\ LET tk == task[t]
           e == Head(tk.todo)
           h == [mu |-> e.mu, mode |-> ModeOf(e)]
       IN  /\ IsAcquire(e) => Grantable(e)
           /\ data' = EffData(tk, e)
           /\ entries' = EffEntries(tk, e)
           /\ \E rest \in Continuation(tk, e) :
                 LET todo == rest \o Tail(tk.todo)
                     held == IF IsAcquire(e) THEN tk.held \cup {h} ELSE tk.held \ {h}
                     rel == IF IsAcquire(e) THEN tk.rel ELSE tk.rel \cup {e.mu}
                 IN  task' = [task EXCEPT ![t] =
                                 IF todo = <<>>
                                 THEN [IdleTask EXCEPT !.held = held]
                                 ELSE [tk EXCEPT !.todo = todo, !.held = held,
                                                 !.rel = rel,
                                                 !.totals = EffTotals(tk, e)]]
    /\ UNCHANGED lockFrame

NextLocks ==
    \/ \E t \in LockClients, key \in LockKeys, ttlMs \in LockSetTTLs :
           BeginSet(t, key, ttlMs)
    \/ \E t \in LockClients, name \in ReadOps, key \in LockKeys :
           BeginRead(t, name, key)
    \/ \E t \in LockClients, key \in LockKeys : BeginDelete(t, key)
    \/ \E t \in LockClients, key \in LockKeys, ttlMs \in LockExpireTTLs :
           BeginExpire(t, key, ttlMs)
    \/ \E t \in LockClients : BeginStats(t)
    \/ BeginExpireKeys
    \/ \E t \in LockTasks : Step(t)

SpecLocks == Init /\ [][NextLocks]_vars

Waiting(t) == task[t].todo # <<>> /\ IsAcquire(Head(task[t].todo))

HoldsKind(t, kind) == \E h \in task[t].held : h.mu.kind = kind

\* C16: a task that requests a shard lock holds no chain lock, and a task
\* that requests a chain lock holds the shard lock of that chain or has
\* released it earlier in the same operation.
C16_ShardBeforeChain ==
    \A t \in LockTasks :
        Waiting(t) =>
            LET e == Head(task[t].todo)
            IN  /\ e.mu.kind = "shard" => ~HoldsKind(t, "chain")
                /\ e.mu.kind = "chain" =>
                       \/ \E h \in task[t].held : h.mu = ShardMu(e.mu.shard)
                       \/ ShardMu(e.mu.shard) \in task[t].rel

\* one task holds a chain lock inside its shard lock while another holds a
\* chain lock after it has released the shard lock
C16_Witness ==
    \E t, u \in LockTasks :
        /\ t # u
        /\ HoldsKind(t, "chain") /\ HoldsKind(t, "shard")
        /\ HoldsKind(u, "chain") /\ ~HoldsKind(u, "shard")
        /\ \E h \in task[u].held : ShardMu(h.mu.shard) \in task[u].rel

\* C17: a task that requests the TTL index mutex holds no chain lock.
C17_WheelOutsideChain ==
    \A t \in LockTasks :
        (Waiting(t) /\ Head(task[t].todo).mu.kind = "wheel") => ~HoldsKind(t, "chain")

----------------------------------------------------------------------------
(* RESP: values, the reader, and the coercion of a value to a command.      *)
(* The text of a message that no code looks into is written as one element  *)
(* of the character sequence.                                               *)

CR == "\r"
LF == "\n"
CRLF == <<CR, LF>>

SimpleStringV(str) == RESPValue("+", str, 0, <<>>, FALSE)
ErrorV(str) == RESPValue("-", str, 0, <<>>, FALSE)
IntegerV(int) == RESPValue(":", <<>>, int, <<>>, FALSE)
BulkStringV(str) == RESPValue("$", str, 0, <<>>, FALSE)
NullBulkString == RESPValue("$", <<>>, 0, <<>>, TRUE)
ArrayV(arr) == RESPValue("*", <<>>, 0, arr, FALSE)
NullArray == RESPValue("*", <<>>, 0, <<>>, TRUE)

Digits == <<"0", "1", "2", "3", "4", "5", "6", "7", "8", "9">>

IsDigit(c) == \E i \in 1..Len(Digits) : Digits[i] = c

DigitVal(c) == (CHOOSE i \in 1..Len(Digits) : Digits[i] = c) - 1

RECURSIVE DigitsVal(_)
DigitsVal(ds) ==
    IF ds = <<>> THEN 0
    ELSE DigitsVal(SubSeq(ds, 1, Len(ds) - 1)) * Len(Digits) + DigitVal(ds[Len(ds)])

\* strconv.ParseInt(s, 10, 64) and strconv.Atoi(s), for values within range:
\* an optional sign, then one or more decimal digits
ParseInt(s) ==
    LET signed == s # <<>> /\ s[1] \in {"+", "-"}
        ds == IF signed THEN Tail(s) ELSE s
    IN  IF ds = <<>> \/ \E i \in 1..Len(ds) : ~IsDigit(ds[i])
        THEN [ok |-> FALSE, val |-> 0]
        ELSE [ok |-> TRUE,
              val |-> IF signed /\ s[1] = "-" THEN 0 - DigitsVal(ds) ELSE DigitsVal(ds)]

RECURSIVE NatChars(_)
NatChars(n) ==
    IF n < Len(Digits) THEN <<Digits[n + 1]>>
    ELSE NatChars(n \div Len(Digits)) \o <<Digits[(n % Len(Digits)) + 1]>>

\* the %d verb of fmt
Itoa(n) == IF n < 0 THEN <<"-">> \o NatChars(0 - n) ELSE NatChars(n)

Lower == <<"a", "b", "c", "d", "e", "f", "g", "h", "i", "j", "k", "l", "m",
           "n", "o", "p", "q", "r", "s", "t", "u", "v", "w", "x", "y", "z">>
Upper == <<"A", "B", "C", "D", "E", "F", "G", "H", "I", "J", "K", "L", "M",
           "N", "O", "P", "Q", "R", "S", "T", "U", "V", "W", "X", "Y", "Z">>

\* mutant of ToUpper: the string as it came
ToUpperNone(s) == s

\* strings.ToUpper
ToUpper(s) ==
    [i \in 1..Len(s) |->
        IF \E j \in 1..Len(Lower) : Lower[j] = s[i]
        THEN Upper[CHOOSE j \in 1..Len(Lower) : Lower[j] = s[i]]
        ELSE s[i]]

\* results of a read: a value and the bytes after it, an error, or not
\* enough bytes yet (the read blocks)
ReadOk(v, rest) == [st |-> "ok", v |-> v, rest |-> rest]
ReadErr == [st |-> "err", v |-> NoValue, rest |-> <<>>]
ReadMore == [st |-> "more", v |-> NoValue, rest |-> <<>>]

\* resp.go lines 155-169: up to the first \n, without the line ending
readLine(b) ==
    LET I == {i \in 1..Len(b) : b[i] = LF}
    IN  IF I = {} THEN [st |-> "more", line |-> <<>>, rest |-> <<>>]
        ELSE LET n == CHOOSE i \in I : \A j \in I : i <= j
             IN  [st |-> "ok",
                  line |-> IF n >= 2 /\ b[n - 1] = CR
                           THEN SubSeq(b, 1, n - 2)
                           ELSE SubSeq(b, 1, n - 1),
                  rest |-> SubSeq(b, n + 1, Len(b))]

\* lines 66-72
readSimpleString(b) ==
    LET l == readLine(b)
    IN  IF l.st = "more" THEN ReadMore ELSE ReadOk(SimpleStringV(l.line), l.rest)

\* lines 74-80
readError(b) ==
    LET l == readLine(b)
    IN  IF l.st = "more" THEN ReadMore ELSE ReadOk(ErrorV(l.line), l.rest)

\* mutant of readInteger: a line that is no number reads as 0
readIntegerLenient(b) ==
    LET l == readLine(b)
    IN  IF l.st = "more" THEN ReadMore
        ELSE ReadOk(IntegerV(ParseInt(l.line).val), l.rest)

\* lines 82-94
readInteger(b) ==
    LET l == readLine(b)
        n == ParseInt(l.line)
    IN  IF l.st = "more" THEN ReadMore
        ELSE IF ~n.ok THEN ReadErr
        ELSE ReadOk(IntegerV(n.val), l.rest)

\* lines 96-122: the length line, then length + 2 bytes
readBulkString(b) ==
    LET l == readLine(b)
        n == ParseInt(l.line)
    IN  IF l.st = "more" THEN ReadMore
        ELSE IF ~n.ok THEN ReadErr
        ELSE IF n.val = -1 THEN ReadOk(NullBulkString, l.rest)
        ELSE IF n.val < 0 THEN ReadErr
        ELSE IF Len(l.rest) < n.val + 2 THEN ReadMore
        ELSE ReadOk(BulkStringV(SubSeq(l.rest, 1, n.val)),
                    SubSeq(l.rest, n.val + 3, Len(l.rest)))

RECURSIVE Read(_)
RECURSIVE readElements(_, _, _)

\* lines 140-150: the elements of an array, one Read each
readElements(b, n, acc) ==
    IF n = 0 THEN ReadOk(ArrayV(acc), b)
    ELSE LET r == Read(b)
         IN  IF r.st # "ok" THEN r
             ELSE readElements(r.rest, n - 1, Append(acc, r.v))

\* lines 124-153
readArray(b) ==
    LET l == readLine(b)
        n == ParseInt(l.line)
    IN  IF l.st = "more" THEN ReadMore
        ELSE IF ~n.ok THEN ReadErr
        ELSE IF n.val = -1 THEN ReadOk(NullArray, l.rest)
        ELSE IF n.val < 0 THEN ReadErr
        ELSE readElements(l.rest, n.val, <<>>)

\* lines 44-64
Read(b) ==
    IF b = <<>> THEN ReadMore
    ELSE CASE b[1] = "+" -> readSimpleString(Tail(b))
           [] b[1] = "-" -> readError(Tail(b))
           [] b[1] = ":" -> readInteger(Tail(b))
           [] b[1] = "$" -> readBulkString(Tail(b))
           [] b[1] = "*" -> readArray(Tail(b))
           [] OTHER -> ReadErr

\* resp.go lines 207-211
WriteSimpleString(s) == <<"+">> \o s \o CRLF

\* lines 213-217
WriteError(s) == <<"-">> \o s \o CRLF

\* lines 219-223
WriteInteger(i) == <<":">> \o Itoa(i) \o CRLF

\* mutant of WriteBulkString: the empty string is written as the null one
WriteBulkStringEmptyNull(s) ==
    IF s = <<>> THEN <<"$", "-", "1">> \o CRLF
    ELSE <<"$">> \o Itoa(Len(s)) \o CRLF \o s \o CRLF

\* lines 225-229
WriteBulkString(s) == <<"$">> \o Itoa(Len(s)) \o CRLF \o s \o CRLF

\* lines 231-235
WriteNullBulkString == <<"$", "-", "1">> \o CRLF

\* lines 251-255
WriteNullArray == <<"*", "-", "1">> \o CRLF

RECURSIVE WriteValue(_), WriteArray(_)
\* lines 182-205: the bytes written for a value; for an unknown type an
\* error is returned and nothing is written
WriteValue(value) ==
    CASE value.Type = "+" -> WriteSimpleString(value.String)
      [] value.Type = "-" -> WriteError(value.String)
      [] value.Type = ":" -> WriteInteger(value.Int)
      [] value.Type = "$" -> IF value.Null THEN WriteNullBulkString
                             ELSE WriteBulkString(value.String)
      [] value.Type = "*" -> IF value.Null THEN WriteNullArray
                             ELSE WriteArray(value.Array)
      [] OTHER -> <<>>

\* lines 237-249
WriteArray(arr) ==
    <<"*">> \o Itoa(Len(arr)) \o CRLF
    \o Flatten([i \in 1..Len(arr) |-> WriteValue(arr[i])])

\* lines 257-278; a nil slice and an empty one are both <<>>
ToStringArray(v) ==
    IF v.Type # "*"
    THEN [ok |-> FALSE, args |-> <<>>, err |-> <<"value is not an array">>]
    ELSE IF v.Null THEN [ok |-> TRUE, args |-> <<>>, err |-> <<>>]
    ELSE LET bad == {i \in 1..Len(v.Array) :
                        ~ \/ (v.Array[i].Type = "$" /\ ~v.Array[i].Null)
                          \/ v.Array[i].Type = "+"}
         IN  IF bad = {}
             THEN [ok |-> TRUE, err |-> <<>>,
                   args |-> [i \in 1..Len(v.Array) |-> v.Array[i].String]]
             ELSE [ok |-> FALSE, args |-> <<>>,
                   err |-> <<"array element ">>
                           \o Itoa((CHOOSE i \in bad : \A j \in bad : i <= j) - 1)
                           \o <<" is not a string">>]

\* lines 281-293
ToCommand(v) ==
    LET a == ToStringArray(v)
    IN  IF ~a.ok THEN [ok |-> FALSE, cmd |-> <<>>, args |-> <<>>, err |-> a.err]
        ELSE IF Len(a.args) = 0
        THEN [ok |-> FALSE, cmd |-> <<>>, args |-> <<>>, err |-> <<"empty command">>]
        ELSE [ok |-> TRUE, cmd |-> ToUpper(a.args[1]), args |-> Tail(a.args),
              err |-> <<>>]

----------------------------------------------------------------------------
(* Dispatcher.  A handler yields the response and the store it leaves; the  *)
(* connection's task runs the Store call it makes as one step.              *)

Reply(v) == [resp |-> v, data |-> data, entries |-> entries]

\* mutant of ErrReply: the message without its prefix
ErrReplyBare(msg) == ErrorV(msg)

\* dispatch.go: the Error responses, every one "ERR " and a message
ErrReply(msg) == ErrorV(<<"E", "R", "R", " ">> \o msg)

WrongArgs(name) ==
    ErrReply(<<"wrong number of arguments for '">> \o name \o <<"' command">>)

\* Store.Set as one step, lines 78-115
SetCall(key, value, ttlMs) ==
    [resp |-> SimpleStringV(<<"O", "K">>),
     data |-> SetData(data, key, Value(value, clock, Expiration(clock, ttlMs))),
     entries |-> SetWheel(entries, key, clock, ttlMs)]

\* Store.Delete as one step, lines 159-173
DeleteCall(d, e, key) ==
    IF key \in DOMAIN d
    THEN [ok |-> TRUE, data |-> DeleteData(d, key), entries |-> DeleteWheel(e, key)]
    ELSE [ok |-> FALSE, data |-> d, entries |-> e]

\* mutant of ExpireCall: the index entry is written before the lookup
ExpireCallAddFirst(d, e, key, ttlMs) ==
    IF key \in DOMAIN d
    THEN [ok |-> TRUE,
          data |-> MapPut(d, key, SetTailTTL(d[key], clock + ttlMs)),
          entries |-> Add(e, key, clock + ttlMs)]
    ELSE [ok |-> FALSE, data |-> d, entries |-> Add(e, key, clock + ttlMs)]

\* Store.Expire as one step, lines 176-201
ExpireCall(d, e, key, ttlMs) ==
    IF key \in DOMAIN d /\ Len(d[key]) > 0
    THEN [ok |-> TRUE,
          data |-> MapPut(d, key, SetTailTTL(d[key], clock + ttlMs)),
          entries |-> Add(e, key, clock + ttlMs)]
    ELSE [ok |-> FALSE, data |-> d, entries |-> e]

\* lines 69-80
handlePing(args) ==
    IF Len(args) = 0 THEN Reply(SimpleStringV(<<"P", "O", "N", "G">>))
    ELSE IF Len(args) = 1 THEN Reply(BulkStringV(args[1]))
    ELSE Reply(WrongArgs(<<"p", "i", "n", "g">>))

RECURSIVE SetOptionsNoScale(_, _, _)
\* mutant of SetOptions: EX stores its number as milliseconds
SetOptionsNoScale(args, i, ttlMs) ==
    IF i > Len(args) THEN [ok |-> TRUE, ttlMs |-> ttlMs, err |-> NoValue]
    ELSE IF i + 1 > Len(args)
    THEN [ok |-> FALSE, ttlMs |-> 0, err |-> ErrReply(<<"syntax error">>)]
    ELSE LET option == ToUpper(args[i])
             ttl == ParseInt(args[i + 1])
             invalid == [ok |-> FALSE, ttlMs |-> 0,
                         err |-> ErrReply(<<"invalid expire time in 'set' command">>)]
         IN  IF option = <<"P", "X">> \/ option = <<"E", "X">>
             THEN IF ~ttl.ok \/ ttl.val <= 0 THEN invalid
                  ELSE SetOptionsNoScale(args, i + 2, ttl.val)
             ELSE [ok |-> FALSE, ttlMs |-> 0,
                   err |-> ErrReply(<<"syntax error near '">> \o option \o <<"'">>)]

RECURSIVE SetOptions(_, _, _)
\* lines 95-131: the (option, number) pairs after key and value; i is the
\* position of the option, from 1
SetOptions(args, i, ttlMs) ==
    IF i > Len(args) THEN [ok |-> TRUE, ttlMs |-> ttlMs, err |-> NoValue]
    ELSE IF i + 1 > Len(args)
    THEN [ok |-> FALSE, ttlMs |-> 0, err |-> ErrReply(<<"syntax error">>)]
    ELSE LET option == ToUpper(args[i])
             ttl == ParseInt(args[i + 1])
             invalid == [ok |-> FALSE, ttlMs |-> 0,
                         err |-> ErrReply(<<"invalid expire time in 'set' command">>)]
         IN  IF option = <<"P", "X">>
             THEN IF ~ttl.ok \/ ttl.val <= 0 THEN invalid
                  ELSE SetOptions(args, i + 2, ttl.val)
             ELSE IF option = <<"E", "X">>
             THEN IF ~ttl.ok \/ ttl.val <= 0 THEN invalid
                  ELSE SetOptions(args, i + 2, ttl.val * 1000)
             ELSE [ok |-> FALSE, ttlMs |-> 0,
                   err |-> ErrReply(<<"syntax error near '">> \o option \o <<"'">>)]

\* mutant of handleSet: the version is stored before the options are read
handleSetEager(args) ==
    IF Len(args) < 2 THEN Reply(WrongArgs(<<"s", "e", "t">>))
    ELSE LET o == SetOptions(args, 3, 0)
             s == SetCall(args[1], args[2], 0)
         IN  IF ~o.ok THEN [resp |-> o.err, data |-> s.data, entries |-> s.entries]
             ELSE SetCall(args[1], args[2], o.ttlMs)

\* lines 82-135
handleSet(args) ==
    IF Len(args) < 2 THEN Reply(WrongArgs(<<"s", "e", "t">>))
    ELSE LET o == SetOptions(args, 3, 0)
         IN  IF ~o.ok THEN Reply(o.err)
             ELSE SetCall(args[1], args[2], o.ttlMs)

\* lines 137-152
handleGet(args) ==
    IF Len(args) # 1 THEN Reply(WrongArgs(<<"g", "e", "t">>))
    ELSE LET r == Get(args[1])
         IN  IF ~r.found THEN Reply(NullBulkString)
             ELSE Reply(BulkStringV(r.value))

RECURSIVE DelKeysCountAll(_, _, _, _)
\* mutant of DelKeys: every argument is counted
DelKeysCountAll(keys, d, e, deleted) ==
    IF keys = <<>>
    THEN [resp |-> IntegerV(deleted), data |-> d, entries |-> e]
    ELSE LET r == DeleteCall(d, e, Head(keys))
         IN  DelKeysCountAll(Tail(keys), r.data, r.entries, deleted + 1)

RECURSIVE DelKeys(_, _, _, _)
\* lines 162-167: one Delete per argument, in order
DelKeys(keys, d, e, deleted) ==
    IF keys = <<>>
    THEN [resp |-> IntegerV(deleted), data |-> d, entries |-> e]
    ELSE LET r == DeleteCall(d, e, Head(keys))
         IN  DelKeys(Tail(keys), r.data, r.entries,
                     IF r.ok THEN deleted + 1 ELSE deleted)

\* lines 154-170
handleDel(args) ==
    IF Len(args) = 0 THEN Reply(WrongArgs(<<"d", "e", "l">>))
    ELSE DelKeys(args, data, entries, 0)

NotAnInteger == ErrReply(<<"value is not an integer or out of range">>)

\* lines 172-194
handleExpire(args) ==
    IF Len(args) # 2 THEN Reply(WrongArgs(<<"e", "x", "p", "i", "r", "e">>))
    ELSE LET ttl == ParseInt(args[2])
         IN  IF ~ttl.ok THEN Reply(NotAnInteger)
             ELSE LET r == ExpireCall(data, entries, args[1], ttl.val * 1000)
                  IN  [resp |-> IntegerV(IF r.ok THEN 1 ELSE 0),
                       data |-> r.data, entries |-> r.entries]

\* lines 196-209: the reply of the TTL command
handleTTLReply(args) ==
    IF Len(args) # 1 THEN Reply(WrongArgs(<<"t", "t", "l">>))
    ELSE Reply(IntegerV(handleTTL(args[1])))

\* lines 211-234
handleGetAt(args) ==
    IF Len(args) # 2 THEN Reply(WrongArgs(<<"g", "e", "t", "a", "t">>))
    ELSE LET timestamp == ParseInt(args[2])
         IN  IF ~timestamp.ok THEN Reply(NotAnInteger)
             ELSE LET r == GetAt(args[1], timestamp.val)
                  IN  IF ~r.found THEN Reply(NullBulkString)
                      ELSE Reply(BulkStringV(r.value))

\* lines 236-274
handleHist(args) ==
    IF Len(args) < 1 \/ Len(args) > 2 THEN Reply(WrongArgs(<<"h", "i", "s", "t">>))
    ELSE LET limit == IF Len(args) = 2 THEN ParseInt(args[2])
                      ELSE [ok |-> TRUE, val |-> 0]
         IN  IF ~limit.ok \/ limit.val < 0
             THEN Reply(ErrReply(<<"value is not a valid limit">>))
             ELSE LET history == History(args[1], limit.val)
                  IN  Reply(ArrayV([i \in 1..(2 * Len(history)) |->
                          IF i % 2 = 1
                          THEN IntegerV(history[(i + 1) \div 2].Timestamp)
                          ELSE BulkStringV(history[i \div 2].Data)]))

PING == <<"P", "I", "N", "G">>
SET == <<"S", "E", "T">>
GET == <<"G", "E", "T">>
DEL == <<"D", "E", "L">>
EXPIRE == <<"E", "X", "P", "I", "R", "E">>
TTLCMD == <<"T", "T", "L">>
GETAT == <<"G", "E", "T", "A", "T">>
HIST == <<"H", "I", "S", "T">>

\* lines 34-43 and 47-65
Dispatch(value) ==
    LET c == ToCommand(value)
    IN  IF ~c.ok THEN Reply(ErrReply(c.err))
        ELSE CASE c.cmd = PING -> handlePing(c.args)
               [] c.cmd = SET -> handleSet(c.args)
               [] c.cmd = GET -> handleGet(c.args)
               [] c.cmd = DEL -> handleDel(c.args)
               [] c.cmd = EXPIRE -> handleExpire(c.args)
               [] c.cmd = TTLCMD -> handleTTLReply(c.args)
               [] c.cmd = GETAT -> handleGetAt(c.args)
               [] c.cmd = HIST -> handleHist(c.args)
               [] OTHER -> Reply(ErrReply(<<"unknown command '">> \o c.cmd \o <<"'">>))

----------------------------------------------------------------------------
(* SpecConn: one connection.  The client sends frames; the connection's     *)
(* task reads a value, dispatches it and writes the response.  The clock    *)
(* stands still: the run is short against a millisecond.                    *)

\* the bytes of a bulk string and of a command, as a client sends them
BulkBytes(str) == <<"$">> \o Itoa(Len(str)) \o CRLF \o str \o CRLF

CommandBytes(words) ==
    <<"*">> \o Itoa(Len(words)) \o CRLF
    \o Flatten([i \in 1..Len(words) |-> BulkBytes(words[i])])

ValidFrames ==
    {CommandBytes(<<PING>>),
     CommandBytes(<<<<"s", "e", "t">>, <<"a">>, <<"1">>>>),
     CommandBytes(<<SET, <<"a">>, <<"2">>, <<"p", "x">>, <<"2">>>>),
     CommandBytes(<<GET, <<"a">>>>),
     CommandBytes(<<DEL, <<"a">>>>),
     CommandBytes(<<EXPIRE, <<"a">>, <<"1">>>>),
     CommandBytes(<<TTLCMD, <<"a">>>>),
     CommandBytes(<<GETAT, <<"a">>, <<"1">>>>),
     CommandBytes(<<HIST, <<"a">>>>)}

\* unknown command, wrong arity, unparseable number, invalid TTL, unknown
\* SET option, odd trailing token
CommandErrorFrames ==
    {CommandBytes(<<<<"F", "O", "O">>>>),
     CommandBytes(<<GET>>),
     CommandBytes(<<EXPIRE, <<"a">>, <<"x">>>>),
     CommandBytes(<<SET, <<"a">>, <<"1">>, <<"P", "X">>, <<"0">>>>),
     CommandBytes(<<SET, <<"a">>, <<"1">>, <<"Z", "Z">>, <<"1">>>>),
     CommandBytes(<<SET, <<"a">>, <<"1">>, <<"P", "X">>>>)}

\* well-framed values that are no command: a SimpleString, an empty Array,
\* a null Array, an Array holding an Integer, an Array holding a null
\* BulkString
NotCommandFrames ==
    {<<"+", "O", "K">> \o CRLF,
     <<"*", "0">> \o CRLF,
     <<"*", "-", "1">> \o CRLF,
     <<"*", "1">> \o CRLF \o <<":", "1">> \o CRLF,
     <<"*", "1">> \o CRLF \o <<"$", "-", "1">> \o CRLF}

\* frames the reader cannot parse: unknown type byte, non-numeric integer
\* and lengths, negative lengths other than -1
MalformedFrames ==
    {<<"@", "x">> \o CRLF,
     <<":", "x">> \o CRLF,
     <<"$", "x">> \o CRLF,
     <<"*", "x">> \o CRLF,
     <<"$", "-", "2">> \o CRLF,
     <<"*", "-", "2">> \o CRLF}

\* a frame that stops short
PartialFrames == {<<"$", "5">> \o CRLF \o <<"a", "b">>}

Frames ==
    ValidFrames \cup CommandErrorFrames \cup NotCommandFrames
    \cup MalformedFrames \cup PartialFrames

connFrame == <<shardMu, pc, op, ret, epc, enow, expiredKeys, lastEff, writes,
               life, task>>

\* the client writes one frame to the socket
ClientSend(f) ==
    /\ conn.state = "open"
    /\ conn.sent < MaxFrames
    /\ conn' = [conn EXCEPT !.inbuf = conn.inbuf \o f, !.sent = conn.sent + 1]
    /\ UNCHANGED <<clock, data, entries, connFrame>>

\* server.go lines 36-44 with a parse error: return, and the deferred Close
ReadFails ==
    /\ conn.state = "open"
    /\ conn.pos = "read"
    /\ Read(conn.inbuf).st = "err"
    /\ conn' = [conn EXCEPT !.state = "closed", !.inbuf = <<>>]
    /\ UNCHANGED <<clock, data, entries, connFrame>>

\* lines 33-44 with the read blocked on an incomplete frame: the deadline
\* passes or the client closes, Read returns the error
ReadTimeout ==
    /\ conn.state = "open"
    /\ conn.pos = "read"
    /\ Read(conn.inbuf).st = "more"
    /\ conn' = [conn EXCEPT !.state = "closed", !.inbuf = <<>>]
    /\ UNCHANGED <<clock, data, entries, connFrame>>

\* lines 36-45: a value is read and dispatched
ReadDispatch ==
    /\ conn.state = "open"
    /\ conn.pos = "read"
    /\ LET r == Read(conn.inbuf)
       IN  /\ r.st = "ok"
           /\ LET d == Dispatch(r.v)
              IN  /\ conn' = [conn EXCEPT !.pos = "write", !.inbuf = r.rest,
                                          !.req = r.v, !.resp = d.resp,
                                          !.answered = FALSE,
                                          !.handled = conn.handled + 1]
                  /\ data' = d.data
                  /\ entries' = d.entries
    /\ UNCHANGED <<clock, connFrame>>

\* lines 48-51: the response is written
WriteResponse ==
    /\ conn.state = "open"
    /\ conn.pos = "write"
    /\ conn' = [conn EXCEPT !.pos = "read", !.answered = TRUE,
                            !.out = Append(conn.out, conn.resp)]
    /\ UNCHANGED <<clock, data, entries, connFrame>>

\* lines 48-51: the write fails (the client is gone): return and Close
WriteFails ==
    /\ conn.state = "open"
    /\ conn.pos = "write"
    /\ conn' = [conn EXCEPT !.state = "closed", !.inbuf = <<>>]
    /\ UNCHANGED <<clock, data, entries, connFrame>>

NextConn ==
    \/ \E f \in Frames : ClientSend(f)
    \/ ReadFails
    \/ ReadTimeout
    \/ ReadDispatch
    \/ WriteResponse
    \/ WriteFails

SpecConn == Init /\ [][NextConn]_vars

IsPrefix(f, b) == Len(f) <= Len(b) /\ SubSeq(b, 1, Len(f)) = f

\* the request the connection is about to read, coerced to a command
NextCommand == ToCommand(Read(conn.inbuf).v)

\* C12: EXPIRE on a key with no version chain replies Integer 0 (Expire has
\* returned false) and leaves the shard maps and the TTL index unchanged.
C12_ExpireAbsent ==
    [][(/\ ReadDispatch
        /\ NextCommand.ok
        /\ NextCommand.cmd = EXPIRE
        /\ Len(NextCommand.args) = 2
        /\ ParseInt(NextCommand.args[2]).ok
        /\ NextCommand.args[1] \notin DOMAIN data) =>
           /\ conn'.resp = IntegerV(0)
           /\ data' = data
           /\ entries' = entries]_vars

\* EXPIRE a 1 was answered with Integer 0 on a store without the key
C12_Witness ==
    /\ conn.answered
    /\ ToCommand(conn.req).ok
    /\ ToCommand(conn.req).cmd = EXPIRE
    /\ ToCommand(conn.req).args = <<<<"a">>, <<"1">>>>
    /\ conn.out # <<>>
    /\ conn.out[Len(conn.out)] = IntegerV(0)
    /\ <<"a">> \notin DOMAIN data
    /\ entries = EmptyMap

\* a value that is no command: not an Array, an empty or null Array, or an
\* Array with an element that is no string or is a null BulkString
NotCommand(v) ==
    \/ v.Type # "*"
    \/ v.Null
    \/ Len(v.Array) = 0
    \/ \E i \in 1..Len(v.Array) :
           \/ v.Array[i].Type \notin {"$", "+"}
           \/ (v.Array[i].Type = "$" /\ v.Array[i].Null)

\* C18: once a well-framed value that is no command has been handled, the
\* connection is closed and no response has been written for it.
C18_NotCommandCloses ==
    (conn.handled > 0 /\ NotCommand(conn.req) /\ conn.pos = "read") =>
        (conn.state = "closed" /\ ~conn.answered)

\* input the reader cannot parse: an unknown type byte, a non-numeric
\* integer or length, a negative length other than -1
Malformed(b) ==
    /\ b # <<>>
    /\ \/ b[1] \notin {"+", "-", ":", "$", "*"}
       \/ /\ b[1] \in {":", "$", "*"}
          /\ readLine(Tail(b)).st = "ok"
          /\ ~ParseInt(readLine(Tail(b)).line).ok
       \/ /\ b[1] \in {"$", "*"}
          /\ readLine(Tail(b)).st = "ok"
          /\ ParseInt(readLine(Tail(b)).line).ok
          /\ ParseInt(readLine(Tail(b)).line).val < -1

\* C19: on malformed input Read returns an error, and when Read returns an
\* error (parse failure, timeout or end of input) the loop closes the
\* connection without a response, a dispatch or a change of the store.
C19_ReadFailureCloses ==
    /\ []((conn.state = "open" /\ conn.pos = "read" /\ Malformed(conn.inbuf)) =>
             Read(conn.inbuf).st = "err")
    /\ [][(ReadFails \/ ReadTimeout) =>
             /\ conn'.state = "closed"
             /\ conn'.out = conn.out
             /\ conn'.handled = conn.handled
             /\ data' = data
             /\ entries' = entries]_vars

\* one request was answered, and the second frame ended the connection at
\* the read
C19_Witness ==
    /\ conn.state = "closed"
    /\ conn.pos = "read"
    /\ conn.sent = 2
    /\ conn.handled = 1
    /\ Len(conn.out) = 1

\* C20: every dispatched request has exactly one response, written before
\* the next request is read; a command error is answered with an Error
\* frame that starts with ERR, changes nothing and keeps the connection open.
C20_SequentialResponses ==
    /\ [](conn.state = "open" =>
             Len(conn.out) = conn.handled - (IF conn.pos = "write" THEN 1 ELSE 0))
    /\ [][ReadDispatch => Len(conn.out) = conn.handled]_vars
    /\ [][(ReadDispatch /\ \E f \in CommandErrorFrames : IsPrefix(f, conn.inbuf)) =>
             /\ conn'.resp.Type = "-"
             /\ IsPrefix(<<"E", "R", "R">>, conn'.resp.String)
             /\ conn'.state = "open"
             /\ data' = data
             /\ entries' = entries]_vars
    /\ [][WriteResponse =>
             /\ conn'.out = Append(conn.out, conn.resp)
             /\ conn'.state = "open"]_vars

\* a command error was answered, and the next request on the same
\* connection was answered after it
C20_Witness ==
    /\ conn.state = "open"
    /\ conn.pos = "read"
    /\ Len(conn.out) = 2
    /\ conn.out[1].Type = "-"
    /\ IsPrefix(<<"E", "R", "R">>, conn.out[1].String)
    /\ conn.out[2].Type # "-"

----------------------------------------------------------------------------
(* SpecCmd: commands reach the dispatcher as parsed values, one after the   *)
(* other, while the clock advances.                                         *)

\* the request a client's words parse to: an Array of BulkStrings
Request(words) == ArrayV([i \in 1..Len(words) |-> BulkStringV(words[i])])

Words(v) == [i \in 1..Len(v.Array) |-> v.Array[i].String]

KeyA == <<"a">>
KeyB == <<"b">>

PingRequests ==
    {Request(<<PING>>),
     Request(<<<<"p", "i", "n", "g">>>>),
     Request(<<PING, <<"H", "i">>>>),
     Request(<<PING, KeyA, KeyB>>)}

SetRequests ==
    {Request(<<SET, KeyA, <<"1">>>>),
     Request(<<SET, KeyB, <<"2">>>>),
     Request(<<<<"s", "e", "t">>, KeyA, <<"2">>, <<"p", "x">>, <<"2">>>>),
     Request(<<SET, KeyA, <<"1">>, <<"E", "x">>, <<"1">>>>),
     Request(<<SET, KeyB, <<"1">>, <<"P", "X">>, <<"1">>, <<"e", "X">>, <<"2">>>>),
     Request(<<SET, KeyA>>),
     Request(<<SET, KeyA, <<"1">>, <<"P", "X">>>>),
     Request(<<SET, KeyA, <<"1">>, <<"Z", "Z">>>>),
     Request(<<SET, KeyA, <<"1">>, <<"P", "X">>, <<"2">>, <<"E", "X">>>>),
     Request(<<SET, KeyA, <<"1">>, <<"P", "X">>, <<"0">>>>),
     Request(<<SET, KeyA, <<"1">>, <<"e", "x">>, <<"-", "1">>>>),
     Request(<<SET, KeyA, <<"1">>, <<"P", "X">>, <<"x">>>>),
     Request(<<SET, KeyA, <<"1">>, <<"Z", "Z">>, <<"1">>>>)}

GetRequests ==
    {Request(<<GET, KeyA>>),
     Request(<<<<"g", "e", "t">>, KeyA>>),
     Request(<<GET>>),
     Request(<<GET, KeyA, KeyB>>)}

DelRequests ==
    {Request(<<DEL, KeyA>>),
     Request(<<<<"d", "e", "l">>, KeyA>>),
     Request(<<DEL, KeyA, KeyB>>),
     Request(<<DEL, KeyA, KeyA>>),
     Request(<<DEL, KeyB, KeyA, KeyB>>),
     Request(<<DEL>>)}

ExpireRequests ==
    {Request(<<EXPIRE, KeyA, <<"1">>>>),
     Request(<<<<"e", "x", "p", "i", "r", "e">>, KeyA, <<"1">>>>),
     Request(<<EXPIRE, KeyA, <<"x">>>>),
     Request(<<EXPIRE, KeyA>>)}

TTLRequests ==
    {Request(<<TTLCMD, KeyA>>),
     Request(<<<<"t", "t", "l">>, KeyA>>),
     Request(<<TTLCMD>>)}

GetAtRequests ==
    {Request(<<GETAT, KeyA, <<"1">>>>),
     Request(<<<<"g", "e", "t", "a", "t">>, KeyA, <<"1">>>>),
     Request(<<GETAT, KeyA, <<"x">>>>),
     Request(<<GETAT, KeyA>>)}

HistRequests ==
    {Request(<<HIST, KeyA>>),
     Request(<<<<"h", "i", "s", "t">>, KeyA>>),
     Request(<<HIST, KeyA, <<"1">>>>),
     Request(<<HIST, KeyA, <<"-", "1">>>>),
     Request(<<HIST, KeyA, <<"x">>>>),
     Request(<<HIST>>),
     Request(<<HIST, KeyA, <<"1">>, <<"2">>>>)}

UnknownRequests ==
    {Request(<<<<"F", "O", "O">>>>),
     Request(<<<<"f", "o", "o">>, KeyA>>)}

Requests ==
    PingRequests \cup SetRequests \cup GetRequests \cup DelRequests
    \cup ExpireRequests \cup TTLRequests \cup GetAtRequests \cup HistRequests
    \cup UnknownRequests

\* server.go lines 45-51: the value is dispatched and the response written
Command(v) ==
    /\ conn.state = "open"
    /\ conn.handled < MaxCmds
    /\ \E d \in {Dispatch(v)} :
           /\ conn' = [conn EXCEPT !.req = v, !.resp = d.resp,
                                   !.answered = TRUE,
                                   !.handled = conn.handled + 1]
           /\ data' = d.data
           /\ entries' = d.entries
    /\ UNCHANGED <<clock, connFrame>>

NextCmd ==
    \/ \E v \in Requests : Command(v)
    \/ Tick

SpecCmd == Init /\ [][NextCmd]_vars

\* C21: a command answered with an Error frame leaves the store as it was:
\* the shard maps with their chains, and the TTL index.
C21_ErrorLeavesStore ==
    [][(conn'.handled = conn.handled + 1 /\ conn'.resp.Type = "-")
           => (data' = data /\ entries' = entries)]_vars

\* a SET with a bad option was answered with an Error while key a is stored
\* with a TTL index entry
C21_Witness ==
    /\ conn.handled > 0
    /\ conn.resp.Type = "-"
    /\ ToCommand(conn.req).ok
    /\ ToCommand(conn.req).cmd = SET
    /\ Len(ToCommand(conn.req).args) > 2
    /\ KeyA \in DOMAIN data
    /\ KeyA \in DOMAIN entries

\* the spellings of the two SET options
PXWords == {<<"P", "X">>, <<"p", "x">>, <<"P", "x">>, <<"p", "X">>}
EXWords == {<<"E", "X">>, <<"e", "x">>, <<"E", "x">>, <<"e", "X">>}

ValidPair(option, number) ==
    /\ option \in PXWords \cup EXWords
    /\ ParseInt(number).ok
    /\ ParseInt(number).val > 0

PairTTL(option, number) ==
    IF option \in PXWords THEN ParseInt(number).val
    ELSE ParseInt(number).val * 1000

IsSet(v) == Words(v)[1] \in {SET, <<"s", "e", "t">>}

\* C22: a SET with key and value alone stores TTL 0; the arguments after
\* them are read in (option, number) pairs, the option in any case, PX n
\* storing an expiry n ms after the write and EX n one n*1000 ms after it
\* (the last pair decides); a token left over after valid pairs is answered
\* 'ERR syntax error'; a pair whose number is no integer or is <= 0, or whose
\* option is unknown, is answered with an Error; a SET that stores is
\* answered with the SimpleString OK.
C22_SetOptions ==
    [][(conn'.handled = conn.handled + 1 /\ IsSet(conn'.req)
        /\ Len(conn'.req.Array) >= 3)
       => LET a == Tail(Words(conn'.req))
              np == (Len(a) - 2) \div 2
              odd == (Len(a) - 2) % 2 = 1
              allValid == \A j \in 1..np : ValidPair(a[2 * j + 1], a[2 * j + 2])
              ttlMs == IF np = 0 THEN 0 ELSE PairTTL(a[2 * np + 1], a[2 * np + 2])
          IN  /\ (allValid /\ odd)
                    => conn'.resp = ErrorV(<<"E", "R", "R", " ", "syntax error">>)
              /\ ~allValid => conn'.resp.Type = "-"
              /\ (allValid /\ ~odd)
                    => /\ conn'.resp = SimpleStringV(<<"O", "K">>)
                       /\ a[1] \in DOMAIN data'
                       /\ data'[a[1]][Len(data'[a[1]])]
                              = Value(a[2], clock,
                                      IF np = 0 THEN 0 ELSE clock + ttlMs)
                       /\ np > 0 => (a[1] \in DOMAIN entries'
                                     /\ entries'[a[1]] = clock + ttlMs)]_vars

\* SET a 1 Ex 1 was answered OK and the tail of a expires 1000 ms after its
\* write
C22_Witness ==
    /\ conn.handled > 0
    /\ IsSet(conn.req)
    /\ Len(conn.req.Array) = 5
    /\ Words(conn.req)[4] \in EXWords
    /\ conn.resp = SimpleStringV(<<"O", "K">>)
    /\ KeyA \in DOMAIN data
    /\ LET tail == data[KeyA][Len(data[KeyA])]
       IN  tail.TTL = tail.Timestamp + 1000

----------------------------------------------------------------------------
(* SpecWire: a writer puts values on the wire, a reader at the other end    *)
(* parses them.                                                             *)

\* well-formed values: SimpleStrings and Errors without line breaks,
\* Integers, BulkStrings (empty, holding a line break, of a two-digit
\* length), the null BulkString, Arrays (empty, flat, nested), the null Array
WireValues ==
    {SimpleStringV(<<"O", "K">>),
     SimpleStringV(<<>>),
     ErrorV(<<"E", "R", "R", " ", "x">>),
     IntegerV(0),
     IntegerV(-7),
     IntegerV(120),
     BulkStringV(<<"a", "b">>),
     BulkStringV(<<>>),
     BulkStringV(<<"a", CR, LF, "$", "1">>),
     BulkStringV(<<"0", "1", "2", "3", "4", "5", "6", "7", "8", "9", "a">>),
     NullBulkString,
     ArrayV(<<>>),
     NullArray,
     ArrayV(<<IntegerV(1), BulkStringV(<<"a">>), NullBulkString>>),
     ArrayV(<<ArrayV(<<>>), NullArray,
              ArrayV(<<SimpleStringV(<<"O", "K">>), BulkStringV(<<>>)>>)>>)}

\* RESPWriter.WriteValue: the bytes of one value go out
WriterWrite(v) ==
    /\ conn.sent < MaxFrames
    /\ conn' = [conn EXCEPT !.wire = conn.wire \o WriteValue(v),
                            !.out = Append(conn.out, v),
                            !.sent = conn.sent + 1]
    /\ UNCHANGED <<clock, data, entries, connFrame>>

\* RESPReader.Read at the other end: one value is parsed off the wire
PeerRead ==
    /\ conn.wire # <<>>
    /\ \E r \in {Read(conn.wire)} :
           /\ r.st = "ok"
           /\ conn' = [conn EXCEPT !.wire = r.rest,
                                   !.got = Append(conn.got, r.v)]
    /\ UNCHANGED <<clock, data, entries, connFrame>>

NextWire ==
    \/ \E v \in WireValues : WriterWrite(v)
    \/ PeerRead

SpecWire == Init /\ [][NextWire]_vars

\* C23: the values parsed off the wire are the values written, in order and
\* equal field by field (so null stays null and empty stays empty), and the
\* bytes of written values always parse.
C23_RoundTrip ==
    /\ Len(conn.got) <= Len(conn.out)
    /\ \A i \in 1..Len(conn.got) : conn.got[i] = conn.out[i]
    /\ conn.wire # <<>> => Read(conn.wire).st = "ok"
    /\ conn.wire = <<>> => conn.got = conn.out

\* an empty BulkString and a null Array were written and parsed
C23_Witness ==
    /\ Len(conn.got) = 2
    /\ conn.got[1] = BulkStringV(<<>>)
    /\ conn.got[2] = NullArray
    /\ conn.wire = <<>>

\* the command a first word names, spelled out for the words of Requests
CommandName(w) ==
    CASE w = <<"p", "i", "n", "g">> -> PING
      [] w = <<"s", "e", "t">> -> SET
      [] w = <<"g", "e", "t">> -> GET
      [] w = <<"d", "e", "l">> -> DEL
      [] w = <<"e", "x", "p", "i", "r", "e">> -> EXPIRE
      [] w = <<"t", "t", "l">> -> TTLCMD
      [] w = <<"g", "e", "t", "a", "t">> -> GETAT
      [] w = <<"h", "i", "s", "t">> -> HIST
      [] w = <<"f", "o", "o">> -> <<"F", "O", "O">>
      [] OTHER -> w

CommandNames == {PING, SET, GET, DEL, EXPIRE, TTLCMD, GETAT, HIST}

\* C24: the first element of a request is upper-cased and names the command,
\* the other elements are the arguments, unchanged and in order: a request
\* spelled in lower case is answered, and acts on the store, exactly as its
\* upper-case spelling, PING echoes its argument as it came, and a name that
\* is none of the eight commands is answered "ERR unknown command '<NAME>'"
\* with the upper-cased name.
C24_Coercion ==
    [][conn'.handled = conn.handled + 1
       => \A w \in {Words(conn'.req)} :
          \A name \in {CommandName(w[1])} :
          \A c \in {ToCommand(conn'.req)} :
              /\ c.ok
              /\ c.cmd = name
              /\ c.args = Tail(w)
              /\ name # w[1]
                    => \A d \in {Dispatch(Request(<<name>> \o Tail(w)))} :
                           /\ conn'.resp = d.resp
                           /\ data' = d.data
                           /\ entries' = d.entries
              /\ (name = PING /\ Len(w) = 2)
                    => conn'.resp = BulkStringV(w[2])
              /\ name \notin CommandNames
                    => /\ conn'.resp
                            = ErrorV(<<"E", "R", "R", " ", "unknown command '">>
                                     \o name \o <<"'">>)
                       /\ data' = data
                       /\ entries' = entries]_vars

\* 'get a' was answered with the value stored under a
C24_Witness ==
    /\ conn.handled > 0
    /\ conn.req = Request(<<<<"g", "e", "t">>, KeyA>>)
    /\ conn.resp.Type = "$"
    /\ ~conn.resp.Null
    /\ KeyA \in DOMAIN data

\* C25: DEL with arguments is answered with the Integer count of the
\* distinct argument keys that were present before it, none of the listed
\* keys is present after it, in the shard maps or in the TTL index, and the
\* other keys are as before.
C25_Del ==
    [][(conn'.handled = conn.handled + 1
        /\ CommandName(Words(conn'.req)[1]) = DEL
        /\ Len(conn'.req.Array) >= 2)
       => \A keys \in {{Words(conn'.req)[i] : i \in 2..Len(conn'.req.Array)}} :
              /\ conn'.resp = IntegerV(Cardinality(keys \cap DOMAIN data))
              /\ DOMAIN data' = DOMAIN data \ keys
              /\ DOMAIN entries' = DOMAIN entries \ keys
              /\ \A k \in DOMAIN data' : data'[k] = data[k]
              /\ \A k \in DOMAIN entries' : entries'[k] = entries[k]]_vars

\* DEL b a b met both keys and was answered 2
C25_Witness ==
    /\ conn.handled > 0
    /\ conn.req = Request(<<DEL, KeyB, KeyA, KeyB>>)
    /\ conn.resp = IntegerV(2)
    /\ DOMAIN data = {}

----------------------------------------------------------------------------
(* History and HIST *)

HistLimits == 0..(MaxVersions + 1)

\* the entries History should return: min(limit, len) of them, or all
HistCount(key, limit) ==
    LET len == IF key \in DOMAIN data THEN Len(data[key]) ELSE 0
    IN  IF limit > 0 THEN Min(limit, len) ELSE len

\* C26: History(k, limit) returns min(limit, len(chain)) entries for a
\* limit > 0 and all of them for limit 0, they are the versions appended
\* last, the list is empty for an absent key, and HIST answers an Array of
\* twice as many elements, [ts, value, ...], ts an Integer and value a
\* BulkString.
C26_HistoryLimit ==
    \A k \in Keys : \A limit \in HistLimits :
        LET h == History(k, limit)
            n == HistCount(k, limit)
            reply == handleHist(IF limit = 0 THEN <<k>> ELSE <<k, Itoa(limit)>>).resp
        IN  /\ Len(h) = n
            /\ k \notin DOMAIN data => h = <<>>
            /\ k \in DOMAIN data
                  => {h[i] : i \in 1..n}
                         = {data[k][j] : j \in (Len(data[k]) - n + 1)..Len(data[k])}
            /\ reply.Type = "*"
            /\ ~reply.Null
            /\ Len(reply.Array) = 2 * n
            /\ \A i \in 1..n :
                   /\ reply.Array[2 * i - 1] = IntegerV(h[i].Timestamp)
                   /\ reply.Array[2 * i] = BulkStringV(h[i].Data)

\* C27: History(k, 0) is non-increasing in write_ts from first to last,
\* whatever the order of the timestamps in the chain.
C27_HistorySorted ==
    \A k \in DOMAIN data :
        LET h == History(k, 0)
        IN  /\ Len(h) = Len(data[k])
            /\ \A i \in 1..(Len(h) - 1) : h[i].Timestamp >= h[i + 1].Timestamp

\* a chain whose timestamps are out of insertion order, the older write
\* appended last; History returns it as it is
C27_Witness ==
    \E k \in DOMAIN data :
        /\ Len(data[k]) = 2
        /\ data[k][1].Timestamp > data[k][2].Timestamp
        /\ History(k, 0) = data[k]

\* C28: every key present has a chain of 1 to MaxVersions versions, and the
\* last of them is the version of the most recent Set on the key.
C28_ChainBounds ==
    \A k \in DOMAIN data :
        /\ Len(data[k]) >= 1
        /\ Len(data[k]) <= MaxVersions
        /\ writes # <<>>
        /\ data[k][Len(data[k])]
               = Value(writes[Len(writes)].Data, writes[Len(writes)].Timestamp, 0)

\* more Sets than MaxVersions were made and the chain is full
C28_Witness ==
    /\ Len(writes) > MaxVersions
    /\ \E k \in DOMAIN data : Len(data[k]) = MaxVersions

----------------------------------------------------------------------------
(* SpecStats: a task calls Stats while a client writes and the expirer      *)
(* sweeps, every task advancing one lock event at a time.                   *)

NextStats ==
    \/ \E t \in StatsTasks : BeginStats(t)
    \/ \E t \in LockClients, key \in LockKeys, ttlMs \in LockSetTTLs :
           BeginSet(t, key, ttlMs)
    \/ \E t \in LockClients, key \in LockKeys : BeginDelete(t, key)
    \/ \E t \in LockClients, key \in LockKeys, ttlMs \in LockExpireTTLs :
           BeginExpire(t, key, ttlMs)
    \/ BeginExpireKeys
    \/ \E t \in LockTasks : Step(t)

SpecStats == Init /\ [][NextStats]_vars

KeysOfShard(i) == {k \in DOMAIN data : hash(k) = i}

RECURSIVE SumLen(_)
SumLen(ks) ==
    IF ks = {} THEN 0
    ELSE LET k == CHOOSE x \in ks : TRUE
         IN  Len(data[k]) + SumLen(ks \ {k})

\* the Stats call of t has counted a shard and is about to release it
ShardCounted(t) ==
    /\ task[t].name = "Stats"
    /\ task[t].todo # <<>>
    /\ Head(task[t].todo).act = "RUnlock"
    /\ Head(task[t].todo).mu.kind = "shard"

\* what Stats returns once its last shard is counted, lines 330-334
StatsResult(t) ==
    [total_keys |-> task[t].totals.keys,
     total_versions |-> task[t].totals.versions,
     shard_count |-> ShardCount]

\* C29: what a shard adds to the totals of Stats is the number of its keys
\* and the sum of their chain lengths at one moment, whatever the writers
\* and the expirer do meanwhile, so that after each shard, and in the result,
\* total_keys <= total_versions <= MaxVersions * total_keys; shard_count is
\* 64.
C29_Stats ==
    \A t \in StatsTasks :
        ShardCounted(t) =>
            LET i == Head(task[t].todo).mu.shard
                r == StatsResult(t)
            IN  /\ task[t].totals.shardKeys = Cardinality(KeysOfShard(i))
                /\ task[t].totals.shardVersions = SumLen(KeysOfShard(i))
                /\ r.total_keys <= r.total_versions
                /\ r.total_versions <= MaxVersions * r.total_keys
                /\ r.shard_count = 64
                /\ r.total_keys <= Cardinality(LockKeys)

\* Stats is about to release its last shard having counted two keys, while
\* the client holds no lock and is inside a call, and one key is gone again
C29_Witness ==
    \E t \in StatsTasks :
        /\ ShardCounted(t)
        /\ Len(task[t].todo) = 1
        /\ task[t].totals.keys = 2
        /\ Cardinality(DOMAIN data) = 1

----------------------------------------------------------------------------
(* SpecReads: the clients of Spec also read.  A read runs under the read    *)
(* locks of the shard and the chain, so it is one step that waits for the   *)
(* writer in the shard.  No read looks at a value, so the clients write     *)
(* FairValues only.                                                         *)

ReadNames == {"Get", "GetAt", "TTL", "History", "Stats"}
Readers == {"c1"}       \* the clients that read

\* mutant of HistoryChain: History sorts the chain itself
HistoryChainSorted(versions) == SortFrom(versions, 2)

\* History, lines 249-256: the chain after the call.  The versions are
\* copied and the copy is sorted
HistoryChain(versions) == versions

\* the shard maps after a read: Get, GetAt, TTL and Stats assign to nothing
\* the store holds, and none of them deletes an expired key
ReadData(name, d, key) ==
    IF name = "History" /\ key \in DOMAIN d
    THEN MapPut(d, key, HistoryChain(d[key]))
    ELSE d

ReadCall(p, name, key) ==
    /\ pc[p] = "idle"
    /\ shardMu[hash(key)] = NoOwner
    /\ data' = ReadData(name, data, key)
    /\ UNCHANGED <<clock, entries, shardMu, pc, op, ret, epc, enow, expiredKeys,
                   lastEff, writes, life, task, conn>>

NextReads ==
    \/ NextFair
    \/ \E p \in Readers, name \in ReadNames, key \in Keys : ReadCall(p, name, key)

SpecReads == Init /\ [][NextReads]_vars

\* C30: Get, GetAt, TTL, History and Stats leave the shard maps, the chains
\* and the TTL index exactly as they were; an expired key stays.
C30_ReadsLeaveStore ==
    [][\A p \in Readers, name \in ReadNames, key \in Keys :
           ReadCall(p, name, key) => (data' = data /\ entries' = entries)]_vars

\* a key whose newest version has expired is still present, with a chain of
\* two versions and a TTL index entry, and a client is free to read it
C30_Witness ==
    \E k \in DOMAIN data :
        /\ ExpiredTail(k)
        /\ Len(data[k]) = 2
        /\ k \in DOMAIN entries
        /\ shardMu[hash(k)] = NoOwner
        /\ \E p \in Readers : pc[p] = "idle"

----------------------------------------------------------------------------
(* Shard selection *)

HashKeys == {"a", "b", "c", "test_key_1", "test_key_2_different"}

\* the keyed lock events a task has before it
KeyedEvents(t) ==
    {task[t].todo[i] : i \in 1..Len(task[t].todo)}

\* C31: the shard of a key is the unsigned 64-bit prefix of its SHA-256
\* modulo ShardCount, a value in 0..ShardCount-1 that depends on the key
\* alone; every lock a task requests or holds for a key is the lock of that
\* shard, or of the one chain of that key, whichever the operation and the
\* task.
C31_ShardOfKey ==
    /\ \A k \in HashKeys :
           \A i \in {Uint64Mod(Sum256Prefix(k), ShardCount)} :
               /\ i >= 0
               /\ i < ShardCount
               /\ k \in LockKeys \cup Keys => hash(k) = i
    /\ \A t \in LockTasks :
           /\ \A e \in KeyedEvents(t) :
                  (e.key # "" /\ e.mu.kind \in {"shard", "chain"})
                      => /\ e.mu.shard = hash(e.key)
                         /\ e.mu.kind = "chain" => e.mu.key = e.key
           /\ \A h \in task[t].held :
                  h.mu.kind = "chain"
                      => h.mu.shard = hash(h.mu.key)

\* a client holds the shard lock of key a inside an operation on a while the
\* expirer waits for the same lock to visit a
C31_Witness ==
    \E t, u \in LockTasks :
        /\ t # u
        /\ \E h \in task[t].held : h.mu = ShardMu(hash("a")) /\ h.mode = "W"
        /\ task[t].key = "a"
        /\ Waiting(u)
        /\ Head(task[u].todo).mu = ShardMu(hash("a"))
        /\ Head(task[u].todo).key = "a"

----------------------------------------------------------------------------
(* SpecWheel: a client calls Add, Remove and GetExpired of the TTL index    *)
(* while the expirer calls GetExpired.                                      *)
(* A call locks the mutex, runs its body (GetExpired one map entry at a     *)
(* time) and unlocks on return.  writes logs the calls in the order of      *)
(* their Lock, each with the index before and after it and its result.      *)
(* The clock stands still: an entry of 1 has expired, one of 2 has not.     *)

WheelTasks == {"t1", "expirer"}
WheelWriters == {"t1"}      \* the tasks that call Add and Remove
WheelKeys == {"a", "c"}
WheelExpirations == {1, 2}
WheelOps == {"Add", "Remove", "GetExpired"}

\* mutant of WheelFree: the mutex excludes nobody
WheelFreeAlways == TRUE

\* part_001 lines 21, 28, 36: tw.mu.Lock() is granted
WheelFree == \A u \in WheelTasks : \A h \in task[u].held : h.mu # WheelMu

wheelFrame == <<data, shardMu, pc, op, ret, epc, enow, expiredKeys, lastEff,
                life, conn>>

\* the call of t in the log
LogIndex(t) == CHOOSE i \in 1..Len(writes) : writes[i].t = t /\ ~writes[i].done

\* lines 21, 28, 36-38: Lock; GetExpired starts to range over the map
WheelLock(t, name, key, expiration) ==
    /\ task[t].name = "idle"
    /\ Len(writes) < MaxWheelOps
    /\ WheelFree
    /\ \E o \in Orders(IF name = "GetExpired" THEN DOMAIN entries ELSE {}) :
           task' = [task EXCEPT ![t] =
                       [IdleTask EXCEPT !.name = name, !.key = key,
                                        !.ttlMs = expiration, !.now = clock,
                                        !.todo = o,
                                        !.held = {[mu |-> WheelMu, mode |-> "W"]}]]
    /\ writes' = Append(writes,
                        [t |-> t, op |-> name, key |-> key, exp |-> expiration,
                         now |-> clock, before |-> entries, after |-> entries,
                         result |-> {}, done |-> FALSE])
    /\ UNCHANGED <<clock, entries, wheelFrame>>

\* lines 39-44: one iteration of the range loop
WheelVisit(t) ==
    /\ task[t].name = "GetExpired"
    /\ task[t].todo # <<>>
    /\ LET key == Head(task[t].todo)
           hit == key \in DOMAIN entries /\ task[t].now >= entries[key]
       IN  /\ entries' = IF hit THEN MapDelete(entries, key) ELSE entries
           /\ writes' = [writes EXCEPT ![LogIndex(t)].result =
                            IF hit THEN @ \cup {key} ELSE @]
    /\ task' = [task EXCEPT ![t].todo = Tail(@)]
    /\ UNCHANGED <<clock, wheelFrame>>

\* the index after the body of Add or Remove, lines 23 and 30
WheelBody(name, e, key, expiration) ==
    CASE name = "Add" -> Add(e, key, expiration)
      [] name = "Remove" -> Remove(e, key)
      [] OTHER -> e

\* lines 23, 30, 47 and the deferred Unlock
WheelReturn(t) ==
    /\ task[t].name \in WheelOps
    /\ task[t].todo = <<>>
    /\ \E e \in {WheelBody(task[t].name, entries, task[t].key, task[t].ttlMs)} :
           /\ entries' = e
           /\ writes' = [writes EXCEPT ![LogIndex(t)].after = e,
                                       ![LogIndex(t)].done = TRUE]
    /\ task' = [task EXCEPT ![t] = IdleTask]
    /\ UNCHANGED <<clock, wheelFrame>>

NextWheel ==
    \/ \E t \in WheelWriters, key \in WheelKeys, expiration \in WheelExpirations :
           WheelLock(t, "Add", key, expiration)
    \/ \E t \in WheelWriters, key \in WheelKeys : WheelLock(t, "Remove", key, 0)
    \/ \E t \in WheelTasks : WheelLock(t, "GetExpired", "", 0)
    \/ \E t \in WheelTasks : WheelVisit(t)
    \/ \E t \in WheelTasks : WheelReturn(t)

SpecWheel == Init /\ [][NextWheel]_vars

\* the entries of e other than those of the keys in ks
Without(e, ks) == [k \in (DOMAIN e) \ ks |-> e[k]]

\* what the claim says a finished call has done
WheelContract(c) ==
    /\ c.op = "Add"
          => /\ DOMAIN c.after = DOMAIN c.before \cup {c.key}
             /\ c.after[c.key] = c.exp
             /\ Without(c.after, {c.key}) = Without(c.before, {c.key})
             /\ Add(c.after, c.key, c.exp) = c.after
    /\ c.op = "Remove"
          => /\ c.after = Without(c.before, {c.key})
             /\ c.key \notin DOMAIN c.before => c.after = c.before
    /\ c.op = "GetExpired"
          => /\ c.result = {k \in DOMAIN c.before : c.before[k] <= c.now}
             /\ c.after = Without(c.before, c.result)
             /\ \A k \in DOMAIN c.after : c.after[k] > c.now

\* C32: the calls of the TTL index take effect one at a time, in the order
\* of their Lock: each starts from the index the call before it left; Add
\* sets the entry of its key, over any older one, and leaves the rest, and a
\* second equal Add changes nothing; Remove of an absent key changes
\* nothing; GetExpired(now) returns exactly the keys whose entry is <= now,
\* removes those entries and no other; and of two GetExpired calls that
\* return one key, an Add of that key lies between them.
C32_WheelAtomic ==
    /\ \A i \in 1..Len(writes) :
           /\ writes[i].before = IF i = 1 THEN EmptyMap ELSE writes[i - 1].after
           /\ i < Len(writes) => writes[i].done
           /\ writes[i].done => WheelContract(writes[i])
    /\ (writes # <<>> /\ writes[Len(writes)].done)
          => entries = writes[Len(writes)].after
    /\ \A i, j \in 1..Len(writes) :
           (i < j /\ writes[i].op = "GetExpired" /\ writes[j].op = "GetExpired")
               => \A k \in writes[i].result \cap writes[j].result :
                      \E m \in (i + 1)..(j - 1) :
                          writes[m].op = "Add" /\ writes[m].key = k

\* an Add over an older entry, then a GetExpired that returned one key and
\* left the other
C32_Witness ==
    /\ Len(writes) >= 3
    /\ \A c \in {writes[Len(writes)]} : \A b \in {writes[Len(writes) - 1]} :
           /\ c.done
           /\ b.op = "Add"
           /\ b.key \in DOMAIN b.before
           /\ b.before[b.key] # b.exp
           /\ c.op = "GetExpired"
           /\ Cardinality(c.result) = 1
           /\ DOMAIN c.after # {}

----------------------------------------------------------------------------
(* Expiry and the reads of the current time *)

\* GetAt(key, timestamp) on the shard maps d, lines 123-155; Get(key) is
\* GetAt at the current time, lines 118-121
GetAtOf(d, key, timestamp) ==
    IF key \notin DOMAIN d THEN NotFound
    ELSE ScanBack(d[key], Len(d[key]), timestamp)

\* C33: a key whose tail has expired and that is not swept yet stays absent
\* until the next Set: a step that is not the append of a Set leaves Get(k)
\* not-found; in particular Expire(k, ttl) with ttl > 0 does not bring the
\* old value back.
C33_ExpiredStaysAbsent ==
    [][\A k \in Keys :
           (/\ ExpiredTail(k)
            /\ ~Get(k).found
            /\ ~\E p \in Clients : pc[p] = "set_append" /\ op[p].key = k /\ pc'[p] = "idle")
               => ~GetAtOf(data', k, clock').found]_vars

\* C34: for a key whose versions all have no expiry, the first element of
\* History(k, 1) carries the value Get(k) returns, after any sequence of
\* Sets, Sets of one millisecond and Sets appended out of timestamp order
\* included.
C34_HistoryHeadIsGet ==
    \A k \in DOMAIN data :
        (\A i \in 1..Len(data[k]) : data[k][i].TTL = 0)
            => /\ Get(k).found
               /\ Len(History(k, 1)) = 1
               /\ History(k, 1)[1].Data = Get(k).value

\* TTL(key) on the shard maps d at the time now, lines 204-233
TTLOf(d, key, now) ==
    IF key \notin DOMAIN d THEN -2
    ELSE IF Len(d[key]) = 0 THEN -2
    ELSE LET latestVersion == d[key][Len(d[key])]
         IN  IF latestVersion.TTL = 0 THEN -1
             ELSE IF now >= latestVersion.TTL THEN -2
             ELSE latestVersion.TTL - now

C36_GetAtSurvivesSweep ==
    [][\A k \in Keys :
           SweepKey(k) =>
               \A ts \in 1..MaxClock :
                   GetAt(k, ts).found => GetAtOf(data', k, ts) = GetAt(k, ts)]_vars

----------------------------------------------------------------------------
(* SpecDead: two clients call the methods of the store while the expirer    *)
(* sweeps, every task advancing one lock event at a time.  Both clients     *)
(* write, expire, delete and read one key, also when it is present; the     *)
(* first sets and deletes a key of another shard, the second calls Stats.   *)

DeadKeys == {"a"}
DeadSetTTLs == {2}
DeadMaxChain == 2

\* Set on a key that may be present
DeadSet(t, key, ttlMs) ==
    /\ ChainLen(key) < DeadMaxChain
    /\ Begin(t, "Set", key, ttlMs, SetLocks(key))

DeadTasks == LockClients \cup StatsTasks

OtherKeys == LockKeys \ DeadKeys

NextDead ==
    \/ \E t \in DeadTasks, key \in DeadKeys, ttlMs \in DeadSetTTLs :
           DeadSet(t, key, ttlMs)
    \/ \E t \in DeadTasks, key \in DeadKeys : BeginDelete(t, key)
    \/ \E t \in DeadTasks, key \in DeadKeys, ttlMs \in LockExpireTTLs :
           BeginExpire(t, key, ttlMs)
    \/ \E t \in LockClients, key \in DeadKeys : BeginRead(t, "History", key)
    \/ \E t \in StatsTasks, key \in DeadKeys : BeginRead(t, "Get", key)
    \/ \E t \in LockClients, key \in OtherKeys, ttlMs \in DeadSetTTLs :
           BeginSet(t, key, ttlMs)
    \/ \E t \in LockClients, key \in OtherKeys : BeginDelete(t, key)
    \/ \E t \in StatsTasks : BeginStats(t)
    \/ BeginExpireKeys
    \/ \E t \in LockTasks : Step(t)

SpecDead == Init /\ [][NextDead]_vars

\* sync.RWMutex: t waits for u when u holds the mutex t requests in a mode
\* that excludes the request, or when t requests RLock and u has called
\* Lock on the mutex before and waits (a pending Lock blocks new readers)
WaitsFor(t, u) ==
    /\ Waiting(t)
    /\ \A e \in {Head(task[t].todo)} :
           \/ \E h \in task[u].held :
                  h.mu = e.mu /\ ~(e.act = "RLock" /\ h.mode = "R")
           \/ /\ t # u
              /\ e.act = "RLock"
              /\ Waiting(u)
              /\ Head(task[u].todo).act = "Lock"
              /\ Head(task[u].todo).mu = e.mu

Blocked(t) == \E u \in LockTasks : WaitsFor(t, u)

\* C37: no reachable state is a deadlock: no task waits for itself, no two
\* and no three tasks wait for each other in a cycle, so whenever an
\* operation is in progress some task in an operation can take its next
\* step; and a task that is in no operation holds no lock.  Every
\* operation is a finite list of lock events, so it completes.
C37_DeadlockFree ==
    /\ \A t \in LockTasks : task[t].todo = <<>> => task[t].held = {}
    /\ \A t \in LockTasks : ~WaitsFor(t, t)
    /\ \A t, u \in LockTasks : ~(WaitsFor(t, u) /\ WaitsFor(u, t))
    /\ \A t, u, w \in LockTasks :
           ~(WaitsFor(t, u) /\ WaitsFor(u, w) /\ WaitsFor(w, t))
    /\ (\E t \in LockTasks : task[t].todo # <<>>)
          => \E t \in LockTasks : task[t].todo # <<>> /\ ~Blocked(t)

\* three tasks in a chain of waits: one waits for a lock of the second,
\* which holds a shard and a chain lock and waits for the TTL index mutex
\* that the third holds
C37_Witness ==
    \E t, u, w \in LockTasks :
        /\ t # u /\ u # w /\ t # w
        /\ WaitsFor(t, u)
        /\ WaitsFor(u, w)
        /\ HoldsKind(u, "chain")
        /\ HoldsKind(u, "shard")
        /\ \E h \in task[u].held : h.mu = Head(task[t].todo).mu
        /\ \E h \in task[w].held : h.mu = Head(task[u].todo).mu

----------------------------------------------------------------------------
(* 64-bit integers.  An int64 is its two's complement bit pattern in four   *)
(* limbs of 16 bits, least significant first; a natural number of any size  *)
(* is a sequence of limbs without a zero limb at its end.                   *)

Limb == 65536
Limbs64 == 4
SignLimb == 32768

Zero64 == [i \in 1..Limbs64 |-> 0]

\* a number below Limb, such as the clock of the model, as an int64
Nat64(n) == [i \in 1..Limbs64 |-> IF i = 1 THEN n ELSE 0]

RECURSIVE MulAdd(_, _, _)
\* the natural number x * m + c
MulAdd(x, m, c) ==
    IF x = <<>>
    THEN IF c = 0 THEN <<>> ELSE <<c % Limb>> \o MulAdd(<<>>, m, c \div Limb)
    ELSE <<(x[1] * m + c) % Limb>> \o MulAdd(Tail(x), m, (x[1] * m + c) \div Limb)

RECURSIVE AddLimbs(_, _, _)
\* the sum x + y + c, as long as the longer of x and y, or one limb more
AddLimbs(x, y, c) ==
    IF x = <<>> /\ y = <<>> THEN IF c = 0 THEN <<>> ELSE <<c>>
    ELSE LET a == IF x = <<>> THEN 0 ELSE x[1]
             b == IF y = <<>> THEN 0 ELSE y[1]
         IN  <<(a + b + c) % Limb>>
             \o AddLimbs(IF x = <<>> THEN x ELSE Tail(x),
                         IF y = <<>> THEN y ELSE Tail(y), (a + b + c) \div Limb)

RECURSIVE Trim(_)
\* x without the zero limbs at its end
Trim(x) ==
    IF x # <<>> /\ x[Len(x)] = 0 THEN Trim(SubSeq(x, 1, Len(x) - 1)) ELSE x

\* the low 64 bits of x: what an int64 keeps of a result
Wrap64(x) == [i \in 1..Limbs64 |-> IF i <= Len(x) THEN x[i] ELSE 0]

\* Go's x * m on int64: the product modulo 2^64
Mul64(x, m) == Wrap64(MulAdd(x, m, 0))

\* Go's x + y on int64
Add64(x, y) == Wrap64(AddLimbs(x, y, 0))

\* -x
Neg64(x) == Wrap64(AddLimbs([i \in 1..Limbs64 |-> Limb - 1 - x[i]], <<1>>, 0))

IsNeg64(x) == x[Limbs64] >= SignLimb

\* x > 0
Positive64(x) == ~IsNeg64(x) /\ x # Zero64

RECURSIVE Magnitude(_)
\* the natural number the decimal digits ds write
Magnitude(ds) ==
    IF ds = <<>> THEN <<>>
    ELSE MulAdd(Magnitude(SubSeq(ds, 1, Len(ds) - 1)), Len(Digits),
                DigitVal(ds[Len(ds)]))

\* strconv.ParseInt(s, 10, 64): an optional sign and decimal digits; a value
\* outside [-2^63, 2^63 - 1] is an error (ErrRange)
ParseInt64(s) ==
    LET signed == s # <<>> /\ s[1] \in {"+", "-"}
        neg == signed /\ s[1] = "-"
        ds == IF signed THEN Tail(s) ELSE s
    IN  IF ds = <<>> \/ \E i \in 1..Len(ds) : ~IsDigit(ds[i])
        THEN [ok |-> FALSE, val |-> Zero64]
        ELSE LET mag == Magnitude(ds)
                 below == Len(mag) < Limbs64
                              \/ (Len(mag) = Limbs64 /\ mag[Limbs64] < SignLimb)
                 lowest == mag = [i \in 1..Limbs64 |->
                                     IF i = Limbs64 THEN SignLimb ELSE 0]
             IN  IF below \/ (neg /\ lowest)
                 THEN [ok |-> TRUE,
                       val |-> IF neg THEN Neg64(Wrap64(mag)) ELSE Wrap64(mag)]
                 ELSE [ok |-> FALSE, val |-> Zero64]

----------------------------------------------------------------------------
(* SpecScale: SET with EX or PX and EXPIRE, with the numbers of the         *)
(* requests and the expiry of a version as int64.                           *)

\* Store.Set as one step, lines 78-115, ttlMs an int64
Set64(key, value, ttlMs) ==
    [resp |-> SimpleStringV(<<"O", "K">>),
     data |-> SetData(data, key,
                      Value(value, clock,
                            IF Positive64(ttlMs) THEN Add64(Nat64(clock), ttlMs)
                            ELSE Zero64)),
     entries |-> IF Positive64(ttlMs)
                 THEN Add(entries, key, Add64(Nat64(clock), ttlMs))
                 ELSE entries]

\* Store.Expire as one step, lines 176-201, ttlMs an int64
Expire64(key, ttlMs) ==
    IF key \in DOMAIN data /\ Len(data[key]) > 0
    THEN [ok |-> TRUE,
          data |-> MapPut(data, key,
                          SetTailTTL(data[key], Add64(Nat64(clock), ttlMs))),
          entries |-> Add(entries, key, Add64(Nat64(clock), ttlMs))]
    ELSE [ok |-> FALSE, data |-> data, entries |-> entries]

RECURSIVE SetOptions64(_, _, _)
\* dispatch.go lines 95-131
SetOptions64(args, i, ttlMs) ==
    IF i > Len(args) THEN [ok |-> TRUE, ttlMs |-> ttlMs, err |-> NoValue]
    ELSE IF i + 1 > Len(args)
    THEN [ok |-> FALSE, ttlMs |-> Zero64, err |-> ErrReply(<<"syntax error">>)]
    ELSE LET option == ToUpper(args[i])
             ttl == ParseInt64(args[i + 1])
             invalid == [ok |-> FALSE, ttlMs |-> Zero64,
                         err |-> ErrReply(<<"invalid expire time in 'set' command">>)]
         IN  IF option = <<"P", "X">>
             THEN IF ~ttl.ok \/ ~Positive64(ttl.val) THEN invalid
                  ELSE SetOptions64(args, i + 2, ttl.val)
             ELSE IF option = <<"E", "X">>
             THEN IF ~ttl.ok \/ ~Positive64(ttl.val) THEN invalid
                  ELSE SetOptions64(args, i + 2, Mul64(ttl.val, 1000))
             ELSE [ok |-> FALSE, ttlMs |-> Zero64,
                   err |-> ErrReply(<<"syntax error near '">> \o option \o <<"'">>)]

\* dispatch.go lines 82-135
handleSet64(args) ==
    IF Len(args) < 2 THEN Reply(WrongArgs(<<"s", "e", "t">>))
    ELSE LET o == SetOptions64(args, 3, Zero64)
         IN  IF ~o.ok THEN Reply(o.err)
             ELSE Set64(args[1], args[2], o.ttlMs)

\* dispatch.go lines 171-194
handleExpire64(args) ==
    IF Len(args) # 2 THEN Reply(WrongArgs(<<"e", "x", "p", "i", "r", "e">>))
    ELSE LET ttl == ParseInt64(args[2])
         IN  IF ~ttl.ok THEN Reply(NotAnInteger)
             ELSE LET r == Expire64(args[1], Mul64(ttl.val, 1000))
                  IN  [resp |-> IntegerV(IF r.ok THEN 1 ELSE 0),
                       data |-> r.data, entries |-> r.entries]

\* dispatch.go lines 47-65, the two commands that take a time to live
Dispatch64(value) ==
    LET c == ToCommand(value)
    IN  IF ~c.ok THEN Reply(ErrReply(c.err))
        ELSE CASE c.cmd = SET -> handleSet64(c.args)
               [] c.cmd = EXPIRE -> handleExpire64(c.args)
               [] OTHER -> Reply(ErrReply(<<"unknown command '">> \o c.cmd \o <<"'">>))

EX == <<"E", "X">>
PX == <<"P", "X">>

\* numbers of seconds: small ones; the largest whose thousandfold is an
\* int64 and its successor; one whose thousandfold exceeds 2^64; the largest
\* int64 and its successor
Seconds ==
    {<<"1">>, <<"2">>,
     <<"9", "2", "2", "3", "3", "7", "2", "0", "3", "6", "8", "5", "4", "7", "7", "5">>,
     <<"9", "2", "2", "3", "3", "7", "2", "0", "3", "6", "8", "5", "4", "7", "7", "6">>,
     <<"1", "8", "4", "4", "6", "7", "4", "4", "0", "7", "3", "7", "0", "9", "5", "5", "2">>,
     <<"9", "2", "2", "3", "3", "7", "2", "0", "3", "6", "8", "5", "4", "7", "7", "5",
       "8", "0", "7">>,
     <<"9", "2", "2", "3", "3", "7", "2", "0", "3", "6", "8", "5", "4", "7", "7", "5",
       "8", "0", "8">>}

ScaleRequests ==
    {Request(<<SET, KeyA, <<"1">>, EX, n>>) : n \in Seconds}
    \cup {Request(<<EXPIRE, KeyA, n>>) : n \in Seconds}
    \cup {Request(<<SET, KeyA, <<"1">>, PX, <<"2">>>>),
          Request(<<SET, KeyA, <<"1">>, EX, <<"-", "1">>>>),
          Request(<<SET, KeyA, <<"1">>>>)}

\* one request of the connection: dispatch and response
Command64(v) ==
    /\ conn.state = "open"
    /\ conn.handled < MaxCmds
    /\ \E d \in {Dispatch64(v)} :
           /\ conn' = [conn EXCEPT !.req = v, !.resp = d.resp, !.answered = TRUE,
                                   !.handled = conn.handled + 1]
           /\ data' = d.data
           /\ entries' = d.entries
    /\ UNCHANGED <<clock, connFrame>>

NextScale == (\E v \in ScaleRequests : Command64(v)) \/ Tick

SpecScale == Init /\ [][NextScale]_vars

\* the time of the last request plus a thousand times the seconds it names,
\* as a natural number
ExpiryMeant(now, seconds) ==
    Trim(AddLimbs(MulAdd(Magnitude(seconds), 1000, 0), <<now>>, 0))

\* C38: a SET with EX n that is answered OK stores a version that expires at
\* write_ts + n * 1000, and an EXPIRE key n that is applied sets the expiry
\* of the tail to now + n * 1000, for every n the parser accepts.
C38_SecondsToMs ==
    [][conn'.handled = conn.handled + 1 =>
          \A w \in {Words(conn'.req)} :
              /\ (/\ Len(w) = 5
                  /\ w[1] = SET
                  /\ w[4] = EX
                  /\ conn'.resp = SimpleStringV(<<"O", "K">>))
                     => \A v \in {data'[w[2]][Len(data'[w[2]])]} :
                            /\ ParseInt64(w[5]).ok
                            /\ v.Timestamp = clock
                            /\ ~IsNeg64(v.TTL)
                            /\ Trim(v.TTL) = ExpiryMeant(clock, w[5])
                            /\ entries'[w[2]] = v.TTL
              /\ (w[1] = EXPIRE /\ conn'.resp = IntegerV(1))
                     => \A v \in {data'[w[2]][Len(data'[w[2]])]} :
                            /\ ParseInt64(w[3]).ok
                            /\ ~IsNeg64(v.TTL)
                            /\ Trim(v.TTL) = ExpiryMeant(clock, w[3])
                            /\ entries'[w[2]] = v.TTL]_vars

----------------------------------------------------------------------------
(* SpecIso: a client writes, expires and deletes three keys, two of them in *)
(* one shard, while the expirer sweeps.                                     *)

IsoKeys == {"a", "b"}       \* two keys of shard 10
FarKeys == {"c"}            \* a key of shard 34
FarTTLs == {2}

NextIso ==
    \/ \E t \in LockClients, key \in IsoKeys, ttlMs \in LockSetTTLs :
           BeginSet(t, key, ttlMs)
    \/ \E t \in LockClients, key \in FarKeys, ttlMs \in FarTTLs :
           BeginSet(t, key, ttlMs)
    \/ \E t \in LockClients, key \in IsoKeys \cup FarKeys : BeginDelete(t, key)
    \/ \E t \in LockClients, key \in IsoKeys, ttlMs \in LockExpireTTLs :
           BeginExpire(t, key, ttlMs)
    \/ BeginExpireKeys
    \/ \E t \in LockTasks : Step(t)

SpecIso == Init /\ [][NextIso]_vars

\* the chain and the TTL index entry of key k
KeyState(d, e, k) ==
    [chain |-> IF k \in DOMAIN d THEN <<d[k]>> ELSE <<>>,
     entry |-> IF k \in DOMAIN e THEN <<e[k]>> ELSE <<>>]

\* C39: a step of Set, Delete, Expire or of the expirer's visit of key k
\* leaves the chain and the TTL index entry of every other key as they
\* were, in the shard of k and in the others; the drain of the TTL index
\* changes no chain and no entry that is not due.
C39_KeyIsolation ==
    [][\A t \in LockTasks :
           (task[t].todo # <<>> /\ task'[t] # task[t]) =>
               \A e \in {Head(task[t].todo)} :
                   \A k \in (IsoKeys \cup FarKeys) \ {e.key} :
                       /\ KeyState(data', entries', k).chain
                              = KeyState(data, entries, k).chain
                       /\ (e.eff # "drain" \/ k \notin GetExpired(entries, task[t].now))
                              => KeyState(data', entries', k).entry
                                     = KeyState(data, entries, k).entry]_vars

\* the expirer is about to remove a key whose tail is due while the other
\* key of its shard and the key of the other shard are present, with their
\* entries in the TTL index
C39_Witness ==
    /\ task["expirer"].todo # <<>>
    /\ \A e \in {Head(task["expirer"].todo)} :
           /\ e.eff = "sweep"
           /\ SweepData(data, e.key, task["expirer"].now) # data
           /\ \A k \in (IsoKeys \cup FarKeys) \ {e.key} :
                  k \in DOMAIN data /\ k \in DOMAIN entries

----------------------------------------------------------------------------
(* SpecShutdown: main.go.  main starts the TCP server, the HTTP server and  *)
(* the background processes, each in a goroutine counted by its WaitGroup,  *)
(* waits for a signal, cancels the context and waits for the WaitGroup or   *)
(* for the timeout.  life.token is the context, life.gpc the expirer        *)
(* goroutine of the store, life.proc the rest of the process.               *)

MaxConns == 2

procFrame == <<storeVars, task, conn>>

\* lines 41-76: the three wg.Add(1) and go statements; main then waits for
\* the signal
MainStart ==
    /\ life.proc.pc = "init"
    /\ life' = [life EXCEPT !.proc.pc = "signal", !.proc.wg = 3,
                            !.proc.tcp = "start", !.proc.http = "start",
                            !.proc.bg = "start"]
    /\ UNCHANGED procFrame

\* lines 97-122: startTCPServer listens, starts the accept loop and waits
\* for the context
TCPListen ==
    /\ life.proc.tcp = "start"
    /\ life' = [life EXCEPT !.proc.tcp = "wait", !.proc.listener = "open",
                            !.proc.accept = "accepting"]
    /\ UNCHANGED procFrame

\* lines 106 and 117: a client connects and its task is started with a bare
\* go statement
Accept ==
    /\ life.proc.accept = "accepting"
    /\ life.proc.listener = "open"
    /\ life.proc.conns < MaxConns
    /\ life' = [life EXCEPT !.proc.conns = @ + 1]
    /\ UNCHANGED procFrame

\* server.go lines 26-54: HandleConnection returns, on a read error, a
\* timeout or a failed write
ConnectionReturn ==
    /\ life.proc.conns > 0
    /\ life' = [life EXCEPT !.proc.conns = @ - 1]
    /\ UNCHANGED procFrame

\* lines 122-123 with the defers of lines 101 and 49: the context is done,
\* the listener is closed, wg.Done()
TCPReturn ==
    /\ life.proc.tcp = "wait"
    /\ life.token
    /\ life' = [life EXCEPT !.proc.tcp = "done", !.proc.listener = "closed",
                            !.proc.wg = @ - 1]
    /\ UNCHANGED procFrame

\* lines 106-110: Accept fails on the closed listener and the context is
\* done: the accept loop returns
AcceptReturn ==
    /\ life.proc.accept = "accepting"
    /\ life.proc.listener = "closed"
    /\ life.token
    /\ life' = [life EXCEPT !.proc.accept = "exited"]
    /\ UNCHANGED procFrame

\* http/server.go lines 27-49: the HTTP server is started and waits for the
\* context
HTTPStart ==
    /\ life.proc.http = "start"
    /\ life' = [life EXCEPT !.proc.http = "wait"]
    /\ UNCHANGED procFrame

\* http/server.go lines 49-55 and main.go line 58: Shutdown returns, wg.Done()
HTTPReturn ==
    /\ life.proc.http = "wait"
    /\ life.token
    /\ life' = [life EXCEPT !.proc.http = "done", !.proc.wg = @ - 1]
    /\ UNCHANGED procFrame

\* line 68 and store.go lines 266-282: StartBackgroundProcesses starts the
\* expirer goroutine, counted by the WaitGroup of the store, and returns
BackgroundCall ==
    /\ life.proc.bg = "start"
    /\ life' = [life EXCEPT !.proc.bg = "called", !.wg = @ + 1, !.gpc = "select"]
    /\ UNCHANGED procFrame

\* line 67: the deferred wg.Done() of the goroutine that made the call
BackgroundDone ==
    /\ life.proc.bg = "called"
    /\ life' = [life EXCEPT !.proc.bg = "done", !.proc.wg = @ - 1]
    /\ UNCHANGED procFrame

\* line 76: SIGINT or SIGTERM arrives
Signal ==
    /\ life.proc.pc = "signal"
    /\ life' = [life EXCEPT !.proc.pc = "cancel"]
    /\ UNCHANGED procFrame

\* line 79: cancel()
MainCancel ==
    /\ life.proc.pc = "cancel"
    /\ life' = [life EXCEPT !.proc.pc = "select", !.token = TRUE]
    /\ UNCHANGED procFrame

\* lines 83-90: wg.Wait() has returned and done is closed
MainComplete ==
    /\ life.proc.pc = "select"
    /\ life.proc.wg = 0
    /\ life' = [life EXCEPT !.proc.pc = "exit", !.proc.report = "complete"]
    /\ UNCHANGED procFrame

\* lines 91-92: the 30 seconds have passed
MainTimeout ==
    /\ life.proc.pc = "select"
    /\ life' = [life EXCEPT !.proc.pc = "exit", !.proc.report = "timeout"]
    /\ UNCHANGED procFrame

\* the goroutines run until main returns
Running == life.proc.pc # "exit"

NextShutdown ==
    \/ MainStart
    \/ Running /\ TCPListen
    \/ Running /\ Accept
    \/ Running /\ ConnectionReturn
    \/ Running /\ TCPReturn
    \/ Running /\ AcceptReturn
    \/ Running /\ HTTPStart
    \/ Running /\ HTTPReturn
    \/ Running /\ BackgroundCall
    \/ Running /\ BackgroundDone
    \/ Running /\ ExpirerTick
    \/ Running /\ SweepDrain
    \/ Running /\ ExpirerExit
    \/ Signal
    \/ MainCancel
    \/ MainComplete
    \/ MainTimeout

SpecShutdown == Init /\ [][NextShutdown]_vars

\* C40: when main reports that the shutdown is complete, the context is
\* cancelled, the listener is closed and the accept loop has returned, no
\* connection task is running and the expirer goroutine has exited.
C40_ShutdownDrains ==
    life.proc.report = "complete"
        => /\ life.token
           /\ life.proc.listener = "closed"
           /\ life.proc.accept = "exited"
           /\ life.proc.conns = 0
           /\ life.gpc = "exited"
           /\ epc = "idle"

====
